---- MODULE Spec2Model ----
(***************************************************************************)
(* A model of supabase_backup.py, the all-in-one incremental backup and    *)
(* restore tool (backup_supabase.py and backup_supabase_safe.py hold older *)
(* copies of the same functions).                                          *)
(*                                                                         *)
(* Three groups of variables:                                               *)
(*   - hin, hout: a harness that applies the pure functions of the change  *)
(*     detector (calculate_table_hash, compare_table_data) to bounded      *)
(*     inputs (specification SpecHash);                                    *)
(*   - fetch: one call of fetch_table_data, page by page (specification    *)
(*     SpecFetch);                                                         *)
(*   - store, backups, ... : the remote store, the three directories and   *)
(*     the budgets of a behaviour (specifications SpecBackup and Spec).    *)
(***************************************************************************)
EXTENDS Integers, Sequences, FiniteSets, TLC

VARIABLES hin, hout, fetch, now, store, backups, summaries, safety, edits,
          faults, restores, rollbacks, call

hvars == <<hin, hout, fetch>>

svars == <<now, store, backups, summaries, safety, edits, faults, restores, rollbacks,
          call>>

vars == <<hin, hout, fetch, now, store, backups, summaries, safety, edits,
          faults, restores, rollbacks, call>>

----------------------------------------------------------------------------
(* Rows.  A row is a JSON object; the model keeps its id column and one    *)
(* payload column v.  An id is tagged with its Python type, because the    *)
(* code's behaviour depends on it: t = "none" is a row without an id key,  *)
(* "int" an integer id (n its value), "str" a string id, n its rank in     *)
(* lexicographic order: 0 is the empty string, 1 is "a".                   *)

NoId == [t |-> "none", n |-> 0]

IntId(n) == [t |-> "int", n |-> n]

StrId(n) == [t |-> "str", n |-> n]

MkRow(id, v) == [id |-> id, v |-> v]

(* Python truthiness of row.get('id'): None, 0 and '' are falsy.           *)
Truthy(id) == id.t # "none" /\ id.n # 0

(* The sort key of calculate_table_hash: x.get('id', str(x)).  str(x) of   *)
(* a row without id is "{'v': 0}" or "{'v': 1}", which sort after every    *)
(* id string of the model ('{' follows the letters), hence ranks 2 + v.    *)
SortKey(row) ==
  IF row.id.t = "none" THEN [t |-> "str", n |-> 2 + row.v] ELSE row.id

(* sorted() raises TypeError as soon as two keys of different types are    *)
(* compared, which happens in every list that holds two such keys.         *)
Comparable(data) ==
  \A i, j \in 1..Len(data) : SortKey(data[i]).t = SortKey(data[j]).t

(* Insert row into an already sorted list, after every element whose key   *)
(* is not larger: sorted() is stable.                                      *)
RECURSIVE InsertStable(_, _)
InsertStable(row, sorted) ==
  IF sorted = <<>> THEN <<row>>
  ELSE IF SortKey(Head(sorted)).n <= SortKey(row).n
       THEN <<Head(sorted)>> \o InsertStable(row, Tail(sorted))
       ELSE <<row>> \o sorted

RECURSIVE StableSort(_)
StableSort(data) ==
  IF data = <<>> THEN <<>>
  ELSE InsertStable(data[Len(data)], StableSort(SubSeq(data, 1, Len(data) - 1)))

(* try: sorted(data, key=...)  except: sorted_data = data                  *)
SortedData(data) == IF Comparable(data) THEN StableSort(data) ELSE data

(* calculate_table_hash.  json.dumps(sort_keys=True) is injective on the   *)
(* rows of the model and md5 is taken to be collision free, so the digest  *)
(* is represented by the list that is serialised; the digest of the empty  *)
(* table is that of the literal b'empty'.                                  *)
calculate_table_hash(data) ==
  IF data = <<>> THEN [empty |-> TRUE, ser |-> <<>>]
  ELSE [empty |-> FALSE, ser |-> SortedData(data)]

(* An optional row list: previous_data is None or a list.                  *)
None == [present |-> FALSE, rows |-> <<>>]

Some(rows) == [present |-> TRUE, rows |-> rows]

IdSet(data) == {data[i].id : i \in {j \in 1..Len(data) : Truthy(data[j].id)}}

(* A variant of compare_table_data that counts in the other direction      *)
(* (added for removed): the properties of the change detector tell the two *)
(* apart.                                                                  *)
compare_table_data_swapped(current_data, previous_data) ==
  IF ~previous_data.present
  THEN [changed |-> TRUE, reason |-> "no_previous_backup",
        hash |-> calculate_table_hash(<<>>),
        added_count |-> 0, removed_count |-> 0]
  ELSE IF calculate_table_hash(current_data)
            = calculate_table_hash(previous_data.rows)
  THEN [changed |-> FALSE, reason |-> "",
        hash |-> calculate_table_hash(current_data),
        added_count |-> 0, removed_count |-> 0]
  ELSE [changed |-> TRUE, reason |-> "",
        hash |-> calculate_table_hash(current_data),
        added_count |->
          Cardinality(IdSet(previous_data.rows) \ IdSet(current_data)),
        removed_count |->
          Cardinality(IdSet(current_data) \ IdSet(previous_data.rows))]

(* compare_table_data(current_data, previous_data)                         *)
compare_table_data(current_data, previous_data) ==
  IF ~previous_data.present
  THEN [changed |-> TRUE, reason |-> "no_previous_backup",
        hash |-> calculate_table_hash(<<>>),
        added_count |-> 0, removed_count |-> 0]
  ELSE IF calculate_table_hash(current_data)
            = calculate_table_hash(previous_data.rows)
  THEN [changed |-> FALSE, reason |-> "",
        hash |-> calculate_table_hash(current_data),
        added_count |-> 0, removed_count |-> 0]
  ELSE [changed |-> TRUE, reason |-> "",
        hash |-> calculate_table_hash(current_data),
        added_count |->
          Cardinality(IdSet(current_data) \ IdSet(previous_data.rows)),
        removed_count |->
          Cardinality(IdSet(previous_data.rows) \ IdSet(current_data))]

----------------------------------------------------------------------------
(* The harness of the change detector.                                     *)

MaxLen == 2

HIds == {NoId, IntId(0), IntId(1), IntId(2), StrId(0), StrId(1)}

HRows == {MkRow(id, v) : id \in HIds, v \in {0, 1}}

RECURSIVE SeqsUpTo(_, _)
SeqsUpTo(S, n) ==
  IF n = 0 THEN {<<>>}
  ELSE LET shorter == SeqsUpTo(S, n - 1)
       IN shorter \cup {Append(s, x) : s \in {q \in shorter : Len(q) = n - 1}, x \in S}

(* s with row x inserted before position k.                                *)
InsertAt(s, k, x) == SubSeq(s, 1, k - 1) \o <<x>> \o SubSeq(s, k, Len(s))

(* The rearrangements of s: the lists over the elements of s that hold     *)
(* every row as often as s does.                                           *)
Count(s, x) == Cardinality({i \in 1..Len(s) : s[i] = x})

Elems(s) == {s[i] : i \in 1..Len(s)}

IsPermutation(p, s) ==
  /\ Len(p) = Len(s)
  /\ \A x \in Elems(s) \cup Elems(p) : Count(p, x) = Count(s, x)

Shuffles(s) == {p \in [1..Len(s) -> Elems(s)] : IsPermutation(p, s)}

HNoResult ==
  [op |-> "none", h1 |-> calculate_table_hash(<<>>),
   h2 |-> calculate_table_hash(<<>>),
   cmp |-> compare_table_data(<<>>, None)]

(* One call of fetch_table_data on a table of n rows with page_size p: the *)
(* offset of the next request, the rows and the offsets requested so far,  *)
(* and whether the loop has ended.  No call is under way when n = -1.      *)
FetchIdle ==
  [n |-> -1, p |-> 1, start |-> 0, data |-> <<>>, requests |-> <<>>,
   done |-> TRUE]

HInit ==
  /\ fetch = FetchIdle
  /\ hin \in {[cur |-> c, prev |-> None, how |-> "input", extra |-> <<>>] :
               c \in SeqsUpTo(HRows, MaxLen)}
  /\ hout = HNoResult

(* The reference list is chosen relative to the current one: the same      *)
(* list, a rearrangement of it, or the list with one more row, which has   *)
(* an id key whose value no row of the current list has (extra holds it).  *)
HChooseSame ==
  /\ hin.how = "input" /\ hout.op = "none"
  /\ hin' = [hin EXCEPT !.prev = Some(hin.cur), !.how = "same"]
  /\ UNCHANGED <<hout, fetch, svars>>

HChooseShuffle ==
  /\ hin.how = "input" /\ hout.op = "none"
  /\ \E p \in Shuffles(hin.cur) :
       hin' = [hin EXCEPT !.prev = Some(p), !.how = "shuffle"]
  /\ UNCHANGED <<hout, fetch, svars>>

HChooseExtra ==
  /\ hin.how = "input" /\ hout.op = "none"
  /\ \E x \in HRows, k \in 1..(Len(hin.cur) + 1) :
       /\ x.id # NoId
       /\ \A i \in 1..Len(hin.cur) : hin.cur[i].id # x.id
       /\ hin' = [hin EXCEPT !.prev = Some(InsertAt(hin.cur, k, x)),
                             !.how = "extra", !.extra = <<x>>]
  /\ UNCHANGED <<hout, fetch, svars>>

HHash ==
  /\ hin.how # "input"
  /\ hout.op = "none"
  /\ hout' = [hout EXCEPT !.op = "hash",
                          !.h1 = calculate_table_hash(hin.cur),
                          !.h2 = calculate_table_hash(hin.prev.rows)]
  /\ UNCHANGED <<hin, fetch, svars>>

HCompare ==
  /\ hout.op = "none"
  /\ hout' = [hout EXCEPT !.op = "compare",
                          !.cmp = compare_table_data(hin.cur, hin.prev)]
  /\ UNCHANGED <<hin, fetch, svars>>

----------------------------------------------------------------------------
(* The remote store, the directories and the clock.                        *)

(* get_all_tables(): the list of tables is fixed.                          *)
TableList == <<"users", "orders", "room_allotments">>

Tables == {TableList[i] : i \in 1..Len(TableList)}

MaxId == 3

(* Rows of the remote store: integer primary keys 1..MaxId.                *)
SRows == {MkRow(IntId(i), v) : i \in 1..MaxId, v \in {0, 1}}

(* The clock, in seconds: datetime.now().strftime('%Y%m%d_%H%M%S').        *)
MaxClock == 4

(* page_size of fetch_table_data (1000 in the code), scaled down.          *)
PageSize == 2

(* DEFAULT_BATCH_SIZE (100 in the code), scaled down.                      *)
BatchSize == 2

(* keep_count of cleanup_old_backups (288 in the code), scaled down.       *)
KeepCount == 3

Min(a, b) == IF a < b THEN a ELSE b

MaxOf(S) == CHOOSE x \in S : \A y \in S : y <= x

(* The rows of a table in the order the remote store returns them: by id.  *)
RECURSIVE RowsById(_)
RowsById(S) ==
  IF S = {} THEN <<>>
  ELSE LET r == CHOOSE x \in S : \A y \in S : x.id.n <= y.id.n
       IN <<r>> \o RowsById(S \ {r})

(* No fetch fails.                                                         *)
NoPage == -1

(* A request that leaves out the last row of the range.                    *)
range_exclusive(all, first, last) == SubSeq(all, first + 1, Min(last, Len(all)))

(* .range(first, last): the rows at offsets first..last of the table, both *)
(* included, as far as the table has them.                                 *)
range(all, first, last) == SubSeq(all, first + 1, Min(last + 1, Len(all)))

(* The loop of fetch_table_data over the pages of `all`, the table's rows. *)
(* The request of page number failPage raises; the except clause logs the  *)
(* error and breaks, and the rows fetched so far are returned.             *)
RECURSIVE FetchLoop(_, _, _, _, _)
FetchLoop(all, start, page, failPage, data) ==
  IF page = failPage THEN data
  ELSE LET rows == range(all, start, start + PageSize - 1)
       IN IF rows = <<>> THEN data
          ELSE IF Len(rows) < PageSize THEN data \o rows
          ELSE FetchLoop(all, start + PageSize, page + 1, failPage, data \o rows)

fetch_table_data(tableRows, failPage) ==
  FetchLoop(RowsById(tableRows), 0, 0, failPage, <<>>)

(* The three variants of a table's entry in a snapshot document: a row     *)
(* list, {'_unchanged', '_reference_backup', '_hash'} and                  *)
(* {'_error', '_backup_failed'}.                                           *)
HashOfEmpty == calculate_table_hash(<<>>)

RowsEntry(rows) ==
  [tag |-> "rows", rows |-> rows, ref |-> 0, hash |-> HashOfEmpty]

UnchangedEntry(ref, hash) ==
  [tag |-> "unchanged", rows |-> <<>>, ref |-> ref, hash |-> hash]

FailedEntry ==
  [tag |-> "failed", rows |-> <<>>, ref |-> 0, hash |-> HashOfEmpty]

(* A snapshot document.  previous_backup = 0 stands for None.              *)
Doc(ts, type, prev, data) ==
  [timestamp |-> ts, backup_type |-> type, previous_backup |-> prev, data |-> data]

(* get_latest_backup(): the file with the largest mtime.  A file written   *)
(* later never has a smaller timestamp, so that is the largest timestamp.  *)
HasLatest(dir) == DOMAIN dir # {}

(* A variant of get_latest_backup that globs the safety snapshots too.     *)
get_latest_backup_any(dir) ==
  IF DOMAIN safety # {} /\ MaxOf(DOMAIN safety) >= MaxOf(DOMAIN dir)
  THEN safety[MaxOf(DOMAIN safety)]
  ELSE dir[MaxOf(DOMAIN dir)]

get_latest_backup(dir) == dir[MaxOf(DOMAIN dir)]

(* The outcome of looking up the comparison data of a table                *)
(* (create_backup, "previous_data = ..."): None, a row list, or the dict of *)
(* a failed entry, on which compare_table_data raises.                     *)
PrevNone == [kind |-> "none", rows |-> <<>>]

PrevRows(rows) == [kind |-> "rows", rows |-> rows]

PrevDict == [kind |-> "dict", rows |-> <<>>]

(* A variant of previous_data that reads a failed entry as an empty table. *)
previous_data_failed_as_empty(dir, hasPrev, prev, force_full, table) ==
  IF ~hasPrev \/ force_full THEN PrevNone
  ELSE LET e == prev.data[table]
       IN IF e.tag = "rows" THEN PrevRows(e.rows)
          ELSE IF e.tag = "failed" THEN PrevRows(<<>>)
          ELSE IF e.ref = 0 \/ e.ref \notin DOMAIN dir THEN PrevNone
          ELSE LET r == dir[e.ref].data[table]
               IN IF r.tag = "unchanged" THEN PrevNone
                  ELSE IF r.tag = "rows" THEN PrevRows(r.rows)
                  ELSE PrevDict

previous_data(dir, hasPrev, prev, force_full, table) ==
  IF ~hasPrev \/ force_full THEN PrevNone
  ELSE LET e == prev.data[table]
       IN IF e.tag = "rows" THEN PrevRows(e.rows)
          ELSE IF e.tag = "failed" THEN PrevNone
          ELSE IF e.ref = 0 \/ e.ref \notin DOMAIN dir THEN PrevNone
          ELSE LET r == dir[e.ref].data[table]
               IN IF r.tag = "unchanged" THEN PrevNone
                  ELSE IF r.tag = "rows" THEN PrevRows(r.rows)
                  ELSE PrevDict

(* A fault of one backup run: nothing, the request of one page of one      *)
(* table raising, or the comparison of one table raising while it builds   *)
(* the id sets (an id value that cannot be hashed).                        *)
NoFault == [kind |-> "none", table |-> "", page |-> NoPage, file |-> 0]

PageFault(t, k) == [kind |-> "page", table |-> t, page |-> k, file |-> 0]

RaiseFault(t) == [kind |-> "raise", table |-> t, page |-> NoPage, file |-> 0]

(* The snapshot file of second ts cannot be read in this run (json.load or *)
(* gzip.open raises).                                                      *)
UnreadableFault(ts) ==
  [kind |-> "unreadable", table |-> "", page |-> NoPage, file |-> ts]

(* get_latest_backup() returns None when reading the newest file raises.   *)
LatestReadable(dir, fault) ==
  ~(fault.kind = "unreadable" /\ fault.file = MaxOf(DOMAIN dir))

(* A variant in which every referenced file can be read.                   *)
ReadableDirAll(dir, fault) == dir

(* The referenced files the run can load: loading the unreadable one       *)
(* raises, which leaves previous_data None just as a missing file does.    *)
ReadableDir(dir, fault) ==
  IF fault.kind = "unreadable"
  THEN [ts \in DOMAIN dir \ {fault.file} |-> dir[ts]]
  ELSE dir

BackupFaults ==
  {NoFault} \cup {PageFault(t, k) : t \in Tables, k \in 0..1}
            \cup {RaiseFault(t) : t \in Tables}

FailPage(fault, table) ==
  IF fault.kind = "page" /\ fault.table = table THEN fault.page ELSE NoPage

(* A loop body that stores every table as its row list.                    *)
TableEntryAlwaysRows(st, dir, hasPrev, prev, force_full, fault, table) ==
  RowsEntry(fetch_table_data(st[table], FailPage(fault, table)))

(* The body of the loop of create_backup for one table: the entry stored.  *)
TableEntry(st, dir, hasPrev, prev, force_full, fault, table) ==
  LET current_data == fetch_table_data(st[table], FailPage(fault, table))
      pd == previous_data(ReadableDir(dir, fault), hasPrev, prev, force_full, table)
      comparison ==
        compare_table_data(current_data,
                           IF pd.kind = "rows" THEN Some(pd.rows) ELSE None)
      differs == pd.kind = "dict"
                 \/ (pd.kind = "rows" /\ comparison.changed)
      raises == differs /\ (pd.kind = "dict"
                            \/ (fault.kind = "raise" /\ fault.table = table))
  IN IF raises THEN FailedEntry
     ELSE IF ~comparison.changed /\ ~force_full
          THEN UnchangedEntry(prev.timestamp, comparison.hash)
          ELSE RowsEntry(current_data)

(* cleanup_old_backups(keep_count): the files kept and the files deleted.  *)
Newest(S, n) == {x \in S : Cardinality({y \in S : y > x}) < n}

cleanup_old_backups(dir, keep_count) ==
  IF Cardinality(DOMAIN dir) > keep_count
  THEN [ts \in Newest(DOMAIN dir, keep_count) |-> dir[ts]]
  ELSE dir

(* A file name: its prefix (supabase_backup_ or safety_backup_) and its    *)
(* timestamp.                                                              *)
BackupName(ts) == [prefix |-> "supabase_backup", ts |-> ts, abs |-> FALSE]

SafetyName(ts) == [prefix |-> "safety_backup", ts |-> ts, abs |-> FALSE]

NoName == [prefix |-> "", ts |-> 0, abs |-> FALSE]

(* The same file named by its absolute path.                               *)
AbsPath(name) == [name EXCEPT !.abs = TRUE]

(* The restore log of a call that saved none.                              *)
NoLog ==
  [saved |-> FALSE,
   before_counts |-> [t \in Tables |-> 0],
   after_counts |-> [t \in Tables |-> 0],
   tables_restored |-> {},
   tables_failed |-> {},
   inserted |-> [t \in Tables |-> 0],
   updated |-> [t \in Tables |-> 0],
   errors |-> [t \in Tables |-> 0]]

(* A variant of backup_data that takes the latest snapshot as reference    *)
(* even when a full backup is forced.                                      *)
backup_data_ignoring_force(st, dir, ts, force_full, fault) ==
  LET hasPrev == HasLatest(dir)
      prev == IF hasPrev THEN get_latest_backup(dir)
              ELSE Doc(0, "full", 0, [t \in Tables |-> FailedEntry])
  IN Doc(ts,
         IF hasPrev THEN "incremental" ELSE "full",
         IF hasPrev THEN prev.timestamp ELSE 0,
         [t \in Tables |->
            TableEntry(st, dir, hasPrev, prev, force_full, fault, t)])

(* The document create_backup(force_full) assembles (backup_data) from the *)
(* remote store st and the directory dir at second ts.                     *)
backup_data(st, dir, ts, force_full, fault) ==
  LET hasPrev == ~force_full /\ HasLatest(dir) /\ LatestReadable(dir, fault)
      prev == IF hasPrev THEN get_latest_backup(dir)
              ELSE Doc(0, "full", 0, [t \in Tables |-> FailedEntry])
  IN Doc(ts,
         IF hasPrev THEN "incremental" ELSE "full",
         IF hasPrev THEN prev.timestamp ELSE 0,
         [t \in Tables |->
            TableEntry(st, dir, hasPrev, prev, force_full, fault, t)])

(* The file is written under the name of its second (a file of the same    *)
(* second is overwritten); then cleanup_old_backups runs.                  *)
SaveBackup(dir, doc) ==
  cleanup_old_backups([ts \in DOMAIN dir \cup {doc.timestamp} |->
                         IF ts = doc.timestamp THEN doc ELSE dir[ts]],
                      KeepCount)

(* create_backup(force_full).                                              *)
create_backup(force_full, fault) ==
  LET kept == SaveBackup(backups, backup_data(store, backups, now, force_full, fault))
  IN /\ backups' = kept
     /\ summaries' = (summaries \cup {now}) \cap DOMAIN kept
     /\ UNCHANGED <<now, store, safety, edits, restores, rollbacks, call, hvars>>

(* At most MaxFaults calls fail in one behaviour.                          *)
MaxFaults == 1

(* The applications make at most MaxEdits changes to the remote store.     *)
MaxEdits == 1

Spend(isFault) ==
  /\ isFault => faults < MaxFaults
  /\ faults' = IF isFault THEN faults + 1 ELSE faults

(* A fault happens only in a call that is made: the page is requested     *)
(* (the pages before it were full), the comparison reaches the id sets     *)
(* (the hashes differ).                                                    *)
Happens(st, dir, force_full, fault) ==
  \/ fault.kind = "none"
  \/ /\ fault.kind = "page"
     /\ fault.page <= Cardinality(st[fault.table]) \div PageSize
  \/ /\ fault.kind = "raise"
     /\ ~force_full /\ HasLatest(dir)
     /\ LET pd == previous_data(dir, TRUE, get_latest_backup(dir), FALSE, fault.table)
        IN /\ pd.kind = "rows"
           /\ compare_table_data(fetch_table_data(st[fault.table], NoPage),
                                 Some(pd.rows)).changed
  \/ /\ fault.kind = "unreadable"
     /\ ~force_full /\ HasLatest(dir)
     /\ fault.file \in DOMAIN dir
     /\ \/ fault.file = MaxOf(DOMAIN dir)
        \/ \E t \in Tables :
             LET e == get_latest_backup(dir).data[t]
             IN e.tag = "unchanged" /\ e.ref = fault.file

CmdBackup == \E force_full \in BOOLEAN, fault \in BackupFaults :
               /\ Happens(store, backups, force_full, fault)
               /\ Spend(fault.kind # "none")
               /\ create_backup(force_full, fault)

(* create_backup with max_workers > 1 (the default).  Every table is       *)
(* handed to a worker, which runs fetch_table_with_progress; the main      *)
(* thread takes the results in the order the workers complete and stores   *)
(* each under result['table'].                                             *)

(* fetch_table_with_progress(client, table, previous_backup, force_full):  *)
(* the result the worker returns.                                          *)
fetch_table_with_progress(st, dir, hasPrev, prev, force_full, fault, table) ==
  LET current_data == fetch_table_data(st[table], FailPage(fault, table))
      pd == previous_data(ReadableDir(dir, fault), hasPrev, prev, force_full, table)
      comparison ==
        compare_table_data(current_data,
                           IF pd.kind = "rows" THEN Some(pd.rows) ELSE None)
      raises == \/ pd.kind = "dict"
                \/ /\ pd.kind = "rows" /\ comparison.changed
                   /\ fault.kind = "raise" /\ fault.table = table
  IN IF raises
     THEN [table |-> table, success |-> FALSE, data |-> <<>>,
           changed |-> TRUE, hash |-> HashOfEmpty]
     ELSE [table |-> table, success |-> TRUE, data |-> current_data,
           changed |-> comparison.changed, hash |-> comparison.hash]

(* The entry the main thread stores for one result.                        *)
ResultEntry(result, prev, force_full) ==
  IF ~result.success THEN FailedEntry
  ELSE IF ~result.changed /\ ~force_full
       THEN UnchangedEntry(prev.timestamp, result.hash)
       ELSE RowsEntry(result.data)

(* backup_data['data'][table] = entry                                      *)
Put(data, table, entry) ==
  [t \in DOMAIN data \cup {table} |-> IF t = table THEN entry ELSE data[t]]

NoData == [t \in {} |-> FailedEntry]

(* The orders in which the workers of the tables can complete.             *)
CompletionOrders ==
  {o \in [1..Len(TableList) -> Tables] :
     \A i, j \in 1..Len(TableList) : o[i] = o[j] => i = j}

(* An assembly that stores the k-th result to arrive under the k-th table  *)
(* of the table list.                                                      *)
RECURSIVE AssembleByArrival(_, _, _, _, _)
AssembleByArrival(results, order, k, prev, force_full) ==
  IF k = 0 THEN NoData
  ELSE Put(AssembleByArrival(results, order, k - 1, prev, force_full),
           TableList[k],
           ResultEntry(results[order[k]], prev, force_full))

(* The loop over as_completed(future_to_table): the first k results.       *)
RECURSIVE Assemble(_, _, _, _, _)
Assemble(results, order, k, prev, force_full) ==
  IF k = 0 THEN NoData
  ELSE Put(Assemble(results, order, k - 1, prev, force_full),
           results[order[k]].table,
           ResultEntry(results[order[k]], prev, force_full))

(* The document of a run with workers that complete in the given order.    *)
backup_data_workers(st, dir, ts, force_full, fault, order) ==
  LET hasPrev == ~force_full /\ HasLatest(dir) /\ LatestReadable(dir, fault)
      prev == IF hasPrev THEN get_latest_backup(dir)
              ELSE Doc(0, "full", 0, [t \in Tables |-> FailedEntry])
      results == [t \in Tables |->
                    fetch_table_with_progress(st, dir, hasPrev, prev,
                                              force_full, fault, t)]
  IN Doc(ts,
         IF hasPrev THEN "incremental" ELSE "full",
         IF hasPrev THEN prev.timestamp ELSE 0,
         Assemble(results, order, Len(order), prev, force_full))

create_backup_workers(force_full, fault, order) ==
  LET kept == SaveBackup(backups,
                         backup_data_workers(store, backups, now, force_full,
                                             fault, order))
  IN /\ backups' = kept
     /\ summaries' = (summaries \cup {now}) \cap DOMAIN kept
     /\ UNCHANGED <<now, store, safety, edits, restores, rollbacks, call, hvars>>

CmdBackupWorkers ==
  \E force_full \in BOOLEAN, fault \in BackupFaults, order \in CompletionOrders :
    /\ Happens(store, backups, force_full, fault)
    /\ Spend(fault.kind # "none")
    /\ create_backup_workers(force_full, fault, order)

----------------------------------------------------------------------------
(* Restore.                                                                *)

(* A safety backup that stores the tables as unchanged markers once an     *)
(* earlier safety snapshot exists.                                         *)
create_safety_backup_incremental(sf, st, ts, fails) ==
  IF fails THEN [file |-> 0, safety |-> sf]
  ELSE [file |-> ts,
        safety |-> [x \in DOMAIN sf \cup {ts} |->
                      IF x # ts THEN sf[x]
                      ELSE IF DOMAIN sf = {}
                      THEN Doc(ts, "safety", 0,
                               [t \in Tables |->
                                  RowsEntry(fetch_table_data(st[t], NoPage))])
                      ELSE Doc(ts, "incremental", MaxOf(DOMAIN sf),
                               [t \in Tables |->
                                  UnchangedEntry(MaxOf(DOMAIN sf), HashOfEmpty)])]]

(* create_safety_backup(): every table fetched and stored as a row list,   *)
(* in SAFETY_BACKUPS_DIR/safety_backup_<timestamp>.json.gz.  Returns the   *)
(* file (0 for None) and the directory.                                    *)
create_safety_backup(sf, st, ts, fails) ==
  IF fails THEN [file |-> 0, safety |-> sf]
  ELSE [file |-> ts,
        safety |-> [x \in DOMAIN sf \cup {ts} |->
                      IF x = ts
                      THEN Doc(ts, "safety", 0,
                               [t \in Tables |->
                                  RowsEntry(fetch_table_data(st[t], NoPage))])
                      ELSE sf[x]]]

(* The remote store's upsert and update by id.                             *)
RowIds(rows) == {rows[i].id : i \in 1..Len(rows)}

(* A row written without its id column is a new row, to which the remote   *)
(* store gives the next value of the identity column.                      *)
NextId(tableRows) ==
  IntId(1 + MaxOf({0} \cup {r.id.n : r \in {x \in tableRows : x.id.t = "int"}}))

(* An upsert that replaces the content of the table by the rows written.   *)
UpsertReplacing(tableRows, rows) ==
  {rows[i] : i \in {k \in 1..Len(rows) : rows[k].id # NoId}}

RECURSIVE Upsert(_, _)
Upsert(tableRows, rows) ==
  IF rows = <<>> THEN tableRows
  ELSE LET row == Head(rows)
       IN Upsert(IF row.id = NoId
                 THEN tableRows \cup {MkRow(NextId(tableRows), row.v)}
                 ELSE {r \in tableRows : r.id # row.id} \cup {row},
                 Tail(rows))

Update(tableRows, row) ==
  IF \E r \in tableRows : r.id = row.id
  THEN {r \in tableRows : r.id # row.id} \cup {row}
  ELSE tableRows

RECURSIVE UpdateAll(_, _)
UpdateAll(tableRows, rows) ==
  IF rows = <<>> THEN tableRows
  ELSE UpdateAll(Update(tableRows, Head(rows)), Tail(rows))

Event(e, table, rows) == [e |-> e, table |-> table, rows |-> rows]

(* How the remote store answers the writes of one restore:                 *)
(*   ok       every bulk upsert succeeds;                                  *)
(*   rows     every bulk upsert fails, every per-row upsert succeeds;      *)
(*   update   bulk and per-row upserts fail, the latter with a duplicate   *)
(*            key error, and the updates by id succeed;                    *)
(*   noupdate as update, and the updates fail too;                         *)
(*   error    bulk and per-row upserts fail with another error;            *)
(*   mixed    the bulk upsert fails, the per-row upsert of the first row   *)
(*            of the batch succeeds, those of the other rows fail with a   *)
(*            duplicate key error and their updates by id succeed.         *)
WriteModes == {"ok", "rows", "update", "noupdate", "error", "mixed"}

(* excluded_columns of restore_backup: the id column of room_allotments is *)
(* never written.                                                          *)
excluded_columns(table) == IF table = "room_allotments" THEN {"id"} ELSE {}

(* A variant of Filtered that leaves every column in the rows.             *)
Unfiltered(table, batch) == batch

Filtered(table, batch) ==
  [i \in 1..Len(batch) |->
     IF "id" \in excluded_columns(table) THEN MkRow(NoId, batch[i].v) ELSE batch[i]]

(* A batch restore that leaves the rows without id out of its counters.    *)
restore_table_batch_dropping(tableRows, table, rawBatch, mode) ==
  LET batch == Filtered(table, rawBatch)
  IN [rows |-> Upsert(tableRows, batch),
      inserted |-> Len(SelectSeq(batch, LAMBDA r : Truthy(r.id))),
      updated |-> 0, errors |-> 0,
      events |-> <<Event("upsert", table, batch)>>]

(* The answer of the remote store to the per-row upsert of the k-th row of *)
(* a batch whose bulk upsert failed.                                       *)
UpsertOutcome(mode, k) ==
  IF mode = "rows" \/ (mode = "mixed" /\ k = 1) THEN "ok"
  ELSE IF mode \in {"update", "noupdate", "mixed"} THEN "duplicate"
  ELSE "error"

(* The body of the per-row loop for one row: the calls made and the        *)
(* exceptions caught, in order.  row_error stands for errors += 1.         *)
RowTrace(table, row, mode, k) ==
  <<Event("upsert_row", table, <<row>>)>>
    \o (IF UpsertOutcome(mode, k) = "ok" THEN <<>>
        ELSE IF UpsertOutcome(mode, k) = "duplicate"
        THEN <<Event("duplicate", table, <<row>>)>>
               \o (IF Truthy(row.id)
                   THEN <<Event("update_row", table, <<row>>)>>
                          \o (IF mode = "noupdate"
                              THEN <<Event("row_error", table, <<row>>)>>
                              ELSE <<>>)
                   ELSE <<Event("row_error", table, <<row>>)>>)
        ELSE <<Event("row_error", table, <<row>>)>>)

RECURSIVE BatchTrace(_, _, _, _)
BatchTrace(table, batch, mode, k) ==
  IF k > Len(batch) THEN <<>>
  ELSE RowTrace(table, batch[k], mode, k) \o BatchTrace(table, batch, mode, k + 1)

(* A variant of restore_table_batch that goes through the rows one by one  *)
(* after the bulk upsert whether it failed or not.                         *)
restore_table_batch_eager(tableRows, table, rawBatch, mode) ==
  LET batch == Filtered(table, rawBatch)
  IN [rows |-> Upsert(tableRows, batch), inserted |-> Len(batch),
      updated |-> 0, errors |-> 0,
      events |-> <<Event("upsert", table, batch)>>
                   \o BatchTrace(table, batch, "rows", 1)]

(* restore_table_batch(client, table, batch, columns_to_exclude)           *)
restore_table_batch(tableRows, table, rawBatch, mode) ==
  LET batch == Filtered(table, rawBatch)
      withId == SelectSeq(batch, LAMBDA r : Truthy(r.id))
      bulk == <<Event("upsert", table, batch)>>
      events == IF mode = "ok" THEN bulk
                ELSE bulk \o <<Event("upsert_failed", table, batch)>>
                          \o BatchTrace(table, batch, mode, 1)
  IN IF mode = "ok"
     THEN [rows |-> Upsert(tableRows, batch), inserted |-> Len(batch),
           updated |-> 0, errors |-> 0, events |-> events]
     ELSE IF mode = "rows"
     THEN [rows |-> Upsert(tableRows, batch), inserted |-> Len(batch),
           updated |-> 0, errors |-> 0, events |-> events]
     ELSE IF mode = "update"
     THEN [rows |-> UpdateAll(tableRows, withId), inserted |-> 0,
           updated |-> Len(withId), errors |-> Len(batch) - Len(withId),
           events |-> events]
     ELSE IF mode = "noupdate"
     THEN [rows |-> tableRows, inserted |-> 0, updated |-> 0,
           errors |-> Len(batch), events |-> events]
     ELSE IF mode = "mixed"
     THEN LET rest == SelectSeq(Tail(batch), LAMBDA r : Truthy(r.id))
          IN [rows |-> UpdateAll(Upsert(tableRows, <<Head(batch)>>), rest),
              inserted |-> 1, updated |-> Len(rest),
              errors |-> Len(batch) - 1 - Len(rest),
              events |-> events]
     ELSE [rows |-> tableRows, inserted |-> 0, updated |-> 0,
           errors |-> Len(batch), events |-> events]

(* data[i:i + DEFAULT_BATCH_SIZE] for i in range(0, len(data), ...)        *)
RECURSIVE Batches(_)
Batches(data) ==
  IF data = <<>> THEN <<>>
  ELSE <<SubSeq(data, 1, Min(BatchSize, Len(data)))>>
       \o Batches(SubSeq(data, Min(BatchSize, Len(data)) + 1, Len(data)))

(* A variant of MergePrevious that leaves the entries marked unchanged as  *)
(* they are: the end-to-end property of restore tells the two apart.       *)
MergeNothing(dir, doc) == doc.data

(* "Handle incremental backup": the entries marked unchanged are replaced  *)
(* by the entries of the snapshot metadata.previous_backup names, when     *)
(* that file exists.                                                       *)
MergePrevious(dir, doc) ==
  IF doc.backup_type = "incremental" /\ doc.previous_backup # 0
     /\ doc.previous_backup \in DOMAIN dir
  THEN [t \in Tables |->
          IF doc.data[t].tag = "unchanged"
          THEN dir[doc.previous_backup].data[t]
          ELSE doc.data[t]]
  ELSE doc.data

(* "Prepare restore tasks": the (table, batch) pairs, in table order.      *)
RECURSIVE RestoreTasks(_, _)
RestoreTasks(data, tables) ==
  IF tables = <<>> THEN <<>>
  ELSE LET t == Head(tables)
           mine == IF data[t].tag = "rows"
                   THEN [i \in 1..Len(Batches(data[t].rows)) |->
                           [table |-> t, batch |-> Batches(data[t].rows)[i]]]
                   ELSE <<>>
       IN mine \o RestoreTasks(data, Tail(tables))

(* The sequential restore loop: st is the remote store, acc the events and *)
(* the per-table counters so far.                                          *)
RECURSIVE RunTasks(_, _, _, _)
RunTasks(tasks, mode, st, acc) ==
  IF tasks = <<>> THEN [store |-> st, acc |-> acc]
  ELSE LET t == Head(tasks).table
           r == restore_table_batch(st[t], t, Head(tasks).batch, mode)
       IN RunTasks(Tail(tasks), mode, [st EXCEPT ![t] = r.rows],
                   [events |-> acc.events \o r.events,
                    tables_restored |-> acc.tables_restored \cup {t},
                    inserted |-> [acc.inserted EXCEPT ![t] = @ + r.inserted],
                    updated |-> [acc.updated EXCEPT ![t] = @ + r.updated],
                    errors |-> [acc.errors EXCEPT ![t] = @ + r.errors]])

(* What goes wrong in one restore or rollback: nothing, the safety backup  *)
(* (create_safety_backup returns None), the connection                     *)
(* (get_supabase_client returns None), reading the snapshot file (an       *)
(* exception), a document read without its metadata or its data section,   *)
(* or without the entry of a table, or the writes (a write mode other than *)
(* ok).                                                                    *)
Scenarios ==
  {"safety", "client", "load", "nometadata", "nodata", "noentry"} \cup WriteModes

(* backup_data['data'].get(table) of a table the data section has no entry *)
(* for: None.                                                              *)
MissingEntry ==
  [tag |-> "missing", rows |-> <<>>, ref |-> 0, hash |-> HashOfEmpty]

(* The document json.load returns: in scenario noentry the data section    *)
(* has no entry for the second table of metadata.tables.                   *)
EntriesRead(doc, scen) ==
  IF scen = "noentry"
  THEN [doc EXCEPT !.data = [@ EXCEPT ![TableList[2]] = MissingEntry]]
  ELSE doc

(* "Prepare restore tasks": for an entry that is neither a dict with a     *)
(* marker nor a list, the loop evaluates len(data); len(None) raises       *)
(* TypeError, which no handler inside the loop catches.                    *)
PrepareRaises(data) == \E t \in Tables : data[t].tag = "missing"

(* The sections of the document json.load returns.                         *)
Sections(scen) ==
  {"metadata", "data"} \ (IF scen = "nometadata" THEN {"metadata"}
                          ELSE IF scen = "nodata" THEN {"data"} ELSE {})

validate_nothing(sections) == [valid |-> TRUE, errors |-> {}]

(* validate_backup_data(backup_data): is_valid and the errors.             *)
validate_backup_data(sections) ==
  IF "metadata" \notin sections
  THEN [valid |-> FALSE, errors |-> {"Missing metadata in backup"}]
  ELSE IF "data" \notin sections
  THEN [valid |-> FALSE, errors |-> {"Missing data in backup"}]
  ELSE [valid |-> TRUE, errors |-> {}]

(* BASE / name: the directory the path lies in.  Joining an absolute path  *)
(* to a directory gives the absolute path.                                 *)
TargetDir(base, name) ==
  IF name.abs
  THEN (IF name.prefix = "safety_backup" THEN "safety_backups" ELSE "backups")
  ELSE base

(* (BASE / name).exists() and the document read from that path, dir being *)
(* BACKUPS_DIR and sf SAFETY_BACKUPS_DIR.                                  *)
PathExists(dir, sf, base, name) ==
  IF TargetDir(base, name) = "backups"
  THEN name.prefix = "supabase_backup" /\ name.ts \in DOMAIN dir
  ELSE name.prefix = "safety_backup" /\ name.ts \in DOMAIN sf

ReadFile(dir, sf, base, name) ==
  IF TargetDir(base, name) = "backups" THEN dir[name.ts] ELSE sf[name.ts]

Counts(st) == [t \in Tables |-> Cardinality(st[t])]

(* The point of restore_backup the call has come to: the file lookup       *)
(* (START), "STEP 1: Creating Safety Backup", the validation of "STEP 2",  *)
(* "STEP 3: Recording Current State", "Handle incremental backup", "STEP   *)
(* 4: Restoring Data", "STEP 5: Verifying Restore", the return of True     *)
(* (DONE) or a return of False (FAILED).                                   *)
Phase(p) == <<Event(p, "", <<>>)>>

(* A restore that records the current state only after its writes.         *)
DoneTraceLate(sbTrace, writes) ==
  Phase("START") \o sbTrace \o Phase("VALIDATE") \o Phase("RESOLVE_CHAIN")
    \o Phase("WRITE_BACK") \o writes \o Phase("RECORD_BASELINE")
    \o Phase("VERIFY") \o <<Event("log_saved", "", <<>>)>> \o Phase("DONE")

(* The calls and steps of a restore that runs to its end, in order.        *)
DoneTrace(sbTrace, writes) ==
  Phase("START") \o sbTrace \o Phase("VALIDATE") \o Phase("RECORD_BASELINE")
    \o Phase("RESOLVE_CHAIN") \o Phase("WRITE_BACK") \o writes
    \o Phase("VERIFY") \o <<Event("log_saved", "", <<>>)>> \o Phase("DONE")

(* restore_backup(backup_file, skip_safety_backup): the result returned    *)
(* (success, safety_backup_file, restore_log), the calls made and the      *)
(* remote store and safety directory it leaves.                            *)
restore_backup(st, dir, sf, ts, backup_file, skip_safety_backup, scen) ==
  LET none == [success |-> FALSE, safety_file |-> 0, log |-> NoLog,
               events |-> Phase("START") \o Phase("FAILED"),
               store |-> st, safety |-> sf]
      sb == IF skip_safety_backup THEN [file |-> 0, safety |-> sf]
            ELSE create_safety_backup(sf, st, ts, scen = "safety")
      sbEvents == IF sb.file # 0 THEN <<Event("safety_saved", "", <<>>)>> ELSE <<>>
      sbTrace == IF skip_safety_backup THEN <<>>
                 ELSE Phase("SAFETY_BACKUP") \o sbEvents
      unsafe == [none EXCEPT !.events = Phase("START") \o sbTrace \o Phase("FAILED")]
      stopped == [none EXCEPT !.safety_file = sb.file, !.safety = sb.safety,
                              !.events = Phase("START") \o sbTrace \o Phase("FAILED")]
      invalid == [stopped EXCEPT !.events = Phase("START") \o sbTrace
                                            \o Phase("VALIDATE") \o Phase("FAILED")]
      data == MergePrevious(dir, EntriesRead(ReadFile(dir, sb.safety, "backups",
                                                      backup_file), scen))
      raised == [stopped EXCEPT !.events =
                   Phase("START") \o sbTrace \o Phase("VALIDATE")
                     \o Phase("RECORD_BASELINE") \o Phase("RESOLVE_CHAIN")
                     \o Phase("WRITE_BACK") \o Phase("FAILED")]
      run == RunTasks(RestoreTasks(data, TableList),
                      IF scen \in WriteModes THEN scen ELSE "ok", st,
                      [events |-> <<>>, tables_restored |-> {},
                       inserted |-> [t \in Tables |-> 0],
                       updated |-> [t \in Tables |-> 0],
                       errors |-> [t \in Tables |-> 0]])
  IN IF ~PathExists(dir, sf, "backups", backup_file) THEN none
     ELSE IF ~skip_safety_backup /\ sb.file = 0 THEN unsafe
     ELSE IF scen \in {"client", "load"} THEN stopped
     ELSE IF "metadata" \notin Sections(scen) THEN stopped
     ELSE IF ~validate_backup_data(Sections(scen)).valid THEN invalid
     ELSE IF PrepareRaises(data) THEN raised
     ELSE [success |-> TRUE, safety_file |-> sb.file,
           log |-> [saved |-> TRUE,
                    before_counts |-> Counts(st),
                    after_counts |-> Counts(run.store),
                    tables_restored |-> run.acc.tables_restored,
                    tables_failed |-> {t \in Tables : data[t].tag = "failed"},
                    inserted |-> run.acc.inserted,
                    updated |-> run.acc.updated,
                    errors |-> run.acc.errors],
           events |-> DoneTrace(sbTrace, run.acc.events),
           store |-> run.store, safety |-> sb.safety]

(* The files a user can name: those of the two directories.                *)
FileNames ==
  {BackupName(ts) : ts \in DOMAIN backups}
    \cup {SafetyName(ts) : ts \in DOMAIN safety}
    \cup {AbsPath(SafetyName(ts)) : ts \in DOMAIN safety}

(* The inputs of the latest restore or rollback: the command, what goes    *)
(* wrong in it, and whether the user typed ROLLBACK at the prompt.         *)
NoCall == [cmd |-> "none", scen |-> "ok", confirm |-> FALSE]

(* Each behaviour runs at most MaxRestores restores and MaxRollbacks       *)
(* rollbacks.                                                              *)
MaxRestores == 1

MaxRollbacks == 1

(* main(), "restore --file F [--safe]":                                    *)
(* restore_backup(args.file, skip_safety_backup=not args.safe).            *)
main_restore(st, dir, sf, ts, file, safe, scen) ==
  restore_backup(st, dir, sf, ts, file, ~safe, scen)

CmdRestore ==
  \E file \in FileNames, safe \in BOOLEAN, scen \in Scenarios :
    LET r == main_restore(store, backups, safety, now, file, safe, scen)
    IN /\ restores < MaxRestores
       /\ restores' = restores + 1
       /\ Spend(scen # "ok")
       /\ store' = r.store
       /\ safety' = r.safety
       /\ call' = [cmd |-> "restore", scen |-> scen, confirm |-> FALSE]
       /\ UNCHANGED <<now, backups, summaries, edits, rollbacks, hvars>>

(* restore_backup with max_workers > 1 (the default).  Every (table,       *)
(* batch) task is handed to a worker, which runs restore_table_batch; the  *)
(* main thread takes the results in the order the workers complete and     *)
(* adds each to table_results[table].                                      *)

NoResults ==
  [events |-> <<>>, tables_restored |-> {},
   inserted |-> [t \in Tables |-> 0],
   updated |-> [t \in Tables |-> 0],
   errors |-> [t \in Tables |-> 0]]

(* An aggregation that keeps the counts of the latest result of a table.   *)
AddResultOverwriting(acc, t, r) ==
  [events |-> acc.events \o r.events,
   tables_restored |-> acc.tables_restored \cup {t},
   inserted |-> [acc.inserted EXCEPT ![t] = r.inserted],
   updated |-> [acc.updated EXCEPT ![t] = r.updated],
   errors |-> [acc.errors EXCEPT ![t] = r.errors]]

(* table_results[table]['inserted'] += result['inserted'], and so on.      *)
AddResult(acc, t, r) ==
  [events |-> acc.events \o r.events,
   tables_restored |-> acc.tables_restored \cup {t},
   inserted |-> [acc.inserted EXCEPT ![t] = @ + r.inserted],
   updated |-> [acc.updated EXCEPT ![t] = @ + r.updated],
   errors |-> [acc.errors EXCEPT ![t] = @ + r.errors]]

(* The orders in which the workers of n tasks can complete.                *)
TaskOrders(n) ==
  {o \in [1..n -> 1..n] : \A i, j \in 1..n : o[i] = o[j] => i = j}

(* The loop over as_completed(future_to_task): the first k tasks to        *)
(* complete, each applied to the remote store by its worker.               *)
RECURSIVE RunTasksWorkers(_, _, _, _, _)
RunTasksWorkers(tasks, order, k, mode, st) ==
  IF k = 0 THEN [store |-> st, acc |-> NoResults]
  ELSE LET p == RunTasksWorkers(tasks, order, k - 1, mode, st)
           t == tasks[order[k]].table
           r == restore_table_batch(p.store[t], t, tasks[order[k]].batch, mode)
       IN [store |-> [p.store EXCEPT ![t] = r.rows],
           acc |-> AddResult(p.acc, t, r)]

(* The tasks of a restore of a file whose sequential outcome is r (none    *)
(* when the restore stops before its tasks are prepared).                  *)
TasksOfResult(r, dir, backup_file) ==
  IF ~r.success THEN <<>>
  ELSE RestoreTasks(MergePrevious(dir, ReadFile(dir, r.safety, "backups",
                                                backup_file)),
                    TableList)

TasksOf(st, dir, sf, ts, backup_file, skip_safety_backup, scen) ==
  TasksOfResult(restore_backup(st, dir, sf, ts, backup_file, skip_safety_backup, scen),
                dir, backup_file)

(* total_inserted, total_updated, total_errors of the restore log.         *)
RECURSIVE SumOver(_, _)
SumOver(counter, tables) ==
  IF tables = <<>> THEN 0
  ELSE counter[Head(tables)] + SumOver(counter, Tail(tables))

Totals(log) ==
  [inserted |-> SumOver(log.inserted, TableList),
   updated |-> SumOver(log.updated, TableList),
   errors |-> SumOver(log.errors, TableList)]

(* The outcome of the restore once the workers have run: the store they    *)
(* leave, their events between the phase markers, and the log built from   *)
(* the accumulated results.                                                *)
WorkersDone(r, run, skip_safety_backup) ==
  [r EXCEPT !.store = run.store,
            !.events = DoneTrace(IF skip_safety_backup THEN <<>>
                                 ELSE Phase("SAFETY_BACKUP")
                                        \o (IF r.safety_file # 0
                                            THEN <<Event("safety_saved", "", <<>>)>>
                                            ELSE <<>>),
                                 run.acc.events),
            !.log = [r.log EXCEPT
                       !.after_counts = Counts(run.store),
                       !.tables_restored = run.acc.tables_restored,
                       !.inserted = run.acc.inserted,
                       !.updated = run.acc.updated,
                       !.errors = run.acc.errors]]

(* The workers run the tasks of a restore whose steps before the tasks had *)
(* the outcome r.                                                          *)
WorkersRun(r, tasks, st, skip_safety_backup, scen, order) ==
  IF ~r.success THEN r
  ELSE WorkersDone(r,
                   RunTasksWorkers(tasks, order, Len(tasks),
                                   IF scen \in WriteModes THEN scen ELSE "ok", st),
                   skip_safety_backup)

(* restore_backup with workers that complete in the given order: the steps *)
(* before and after the tasks are those of the sequential restore.         *)
restore_backup_workers(st, dir, sf, ts, backup_file, skip_safety_backup, scen, order) ==
  WorkersRun(restore_backup(st, dir, sf, ts, backup_file, skip_safety_backup, scen),
             TasksOf(st, dir, sf, ts, backup_file, skip_safety_backup, scen),
             st, skip_safety_backup, scen, order)

(* The effect of a restore command whose outcome is r.                     *)
RestoreEffect(r, scen) ==
  /\ restores < MaxRestores
  /\ restores' = restores + 1
  /\ Spend(scen # "ok")
  /\ store' = r.store
  /\ safety' = r.safety
  /\ call' = [cmd |-> "restore", scen |-> scen, confirm |-> FALSE]
  /\ UNCHANGED <<now, backups, summaries, edits, rollbacks, hvars>>

CmdRestoreWorkers ==
  \E file \in FileNames, safe \in BOOLEAN, scen \in Scenarios :
    \E order \in TaskOrders(Len(TasksOf(store, backups, safety, now, file,
                                        ~safe, scen))) :
      RestoreEffect(restore_backup_workers(store, backups, safety, now, file,
                                           ~safe, scen, order),
                    scen)

(* A rollback that does not wait for the answer to its prompt.             *)
rollback_unprompted(st, dir, sf, ts, safety_backup_file, confirm, scen) ==
  LET pre == create_safety_backup(sf, st, ts, scen = "safety")
      r == restore_backup(st, dir, pre.safety, ts, safety_backup_file, TRUE, scen)
  IN IF ~PathExists(dir, sf, "safety_backups", safety_backup_file)
     THEN [success |-> FALSE, safety_file |-> 0, log |-> NoLog,
           events |-> <<>>, store |-> st, safety |-> sf]
     ELSE [r EXCEPT !.safety_file = pre.file,
                    !.events = (IF pre.file # 0
                                THEN <<Event("safety_saved", "", <<>>)>>
                                ELSE <<>>) \o r.events]

(* rollback_from_safety_backup(safety_backup_file); confirm is whether the *)
(* user types ROLLBACK at the prompt.                                      *)
rollback_from_safety_backup(st, dir, sf, ts, safety_backup_file, confirm, scen) ==
  LET none == [success |-> FALSE, safety_file |-> 0, log |-> NoLog,
               events |-> <<>>, store |-> st, safety |-> sf]
      pre == create_safety_backup(sf, st, ts, scen = "safety")
      preEvents == IF pre.file # 0 THEN <<Event("safety_saved", "", <<>>)>> ELSE <<>>
      r == restore_backup(st, dir, pre.safety, ts, safety_backup_file, TRUE, scen)
  IN IF ~PathExists(dir, sf, "safety_backups", safety_backup_file) THEN none
     ELSE IF ~confirm THEN none
     ELSE [r EXCEPT !.safety_file = pre.file, !.events = preEvents \o r.events]

CmdRollback ==
  \E file \in FileNames, confirm \in BOOLEAN, scen \in Scenarios :
    LET r == rollback_from_safety_backup(store, backups, safety, now, file,
                                         confirm, scen)
    IN /\ rollbacks < MaxRollbacks
       /\ rollbacks' = rollbacks + 1
       /\ Spend(scen # "ok")
       /\ store' = r.store
       /\ safety' = r.safety
       /\ call' = [cmd |-> "rollback", scen |-> scen, confirm |-> confirm]
       /\ UNCHANGED <<now, backups, summaries, edits, restores, hvars>>

----------------------------------------------------------------------------
(* The clock and the applications that own the remote store.               *)

(* Only the order of the timestamps matters, so the clock is read as the   *)
(* second of the next command: it moves on once a file carries the current *)
(* second.                                                                 *)
Tick ==
  /\ now < MaxClock
  /\ now \in DOMAIN backups \cup DOMAIN safety
  /\ now' = now + 1
  /\ UNCHANGED <<store, backups, summaries, safety, edits, faults, restores, rollbacks,
               call, hvars>>

Edit(t, rows) ==
  /\ edits < MaxEdits
  /\ edits' = edits + 1
  /\ store' = [store EXCEPT ![t] = rows]
  /\ UNCHANGED <<now, backups, summaries, safety, faults, restores, rollbacks, call,
               hvars>>

(* A new row takes the smallest free id.                                   *)
InsertRow ==
  \E t \in Tables, r \in SRows :
    /\ r.v = 0
    /\ \A x \in store[t] : x.id # r.id
    /\ \A i \in 1..(r.id.n - 1) : \E x \in store[t] : x.id.n = i
    /\ Edit(t, store[t] \cup {r})

UpdateRow ==
  \E t \in Tables, r \in SRows :
    /\ r \in store[t]
    /\ r.v = 0
    /\ Edit(t, (store[t] \ {r}) \cup {MkRow(r.id, 1)})

DeleteRow ==
  \E t \in Tables, r \in SRows :
    /\ r \in store[t]
    /\ Edit(t, store[t] \ {r})

EmptyDir == [ts \in {} |-> Doc(0, "full", 0, [t \in Tables |-> FailedEntry])]

(* The remote store the tool is first run against.                         *)
InitialStores ==
  {[t \in Tables |-> IF t = "users" THEN {MkRow(IntId(i), 0) : i \in 1..MaxId} ELSE {}]}

(* The store before a run in which calls fail: a second table has a row,   *)
(* so that one deletion empties it.                                        *)
FaultStores ==
  {[t \in Tables |->
      IF t = "users" THEN {MkRow(IntId(i), 0) : i \in 1..MaxId}
      ELSE IF t = "orders" THEN {MkRow(IntId(1), 0)}
      ELSE {}]}

(* The tool's first run: at second `first`, with `spent` of the faults of  *)
(* the behaviour already behind it.                                        *)
SInitAt(first, spent, stores) ==
  /\ now = first
  /\ store \in stores
  /\ backups = EmptyDir
  /\ summaries = {}
  /\ safety = EmptyDir
  /\ edits = 0
  /\ faults = spent
  /\ restores = 0
  /\ rollbacks = 0
  /\ call = NoCall

HQuiet == hin = [cur |-> <<>>, prev |-> None, how |-> "input", extra |-> <<>>]
          /\ hout = HNoResult

HIdle == HQuiet /\ fetch = FetchIdle

(* The change detector applied to every input of the harness.              *)
InitHash == HInit /\ SInitAt(1, 0, InitialStores)

HNext == HChooseSame \/ HChooseShuffle \/ HChooseExtra \/ HHash \/ HCompare

SpecHash == InitHash /\ [][HNext]_vars

(* Backups alone, with faults, over MaxClock seconds.                      *)
InitBackup == HIdle /\ SInitAt(1, 0, InitialStores)

BNext == Tick \/ InsertRow \/ UpdateRow \/ DeleteRow \/ CmdBackup

SpecBackup == InitBackup /\ [][BNext]_vars

(* Backups, restores and rollbacks, none of whose calls fails, over        *)
(* MaxClock - 1 seconds.                                                   *)
SInit == HIdle /\ SInitAt(2, MaxFaults, InitialStores)

SNext ==
  Tick \/ InsertRow \/ UpdateRow \/ DeleteRow \/ CmdBackup \/ CmdRestore \/ CmdRollback

Spec == SInit /\ [][SNext]_vars

(* The tool within one second, with one fault still to happen: a fetch or  *)
(* comparison fault of a backup, or a failing restore or rollback.         *)
FInit == HIdle /\ SInitAt(MaxClock, 0, FaultStores)

FNext == InsertRow \/ UpdateRow \/ DeleteRow \/ CmdBackup \/ CmdRestore \/ CmdRollback

SpecFaults == FInit /\ [][FNext]_vars

----------------------------------------------------------------------------
(* Properties of the change detector (specification SpecHash).             *)

(* C9: the fingerprint does not depend on the order of the rows: a list    *)
(* and every rearrangement of it have the same hash, whether the rows lack *)
(* an id, share an id or have ids of different types.                      *)
C9_OrderIndependent ==
  (hout.op = "hash" /\ hin.how = "shuffle") => hout.h1 = hout.h2

(* C9, where it fails: two rows that share an id, or whose sort keys have  *)
(* different types, hashed in two different orders.                        *)
C9_Reached ==
  /\ hout.op = "hash" /\ hin.how = "shuffle"
  /\ hin.prev.rows # hin.cur
  /\ hout.h1 # hout.h2

----------------------------------------------------------------------------
(* Properties of the backup runs (specification SpecBackup).               *)

(* The step is a backup run with these inputs in which the fault happens.  *)
BackupStep(force_full, fault) ==
  /\ Happens(store, backups, force_full, fault)
  /\ faults' = IF fault.kind = "none" THEN faults ELSE faults + 1
  /\ backups' = SaveBackup(backups,
                           backup_data(store, backups, now, force_full, fault))
  /\ summaries' = (summaries \cup {now}) \cap DOMAIN backups'
  /\ backups' # backups \/ faults' # faults

(* C6: when the fetch of a table raises during a backup run, the snapshot  *)
(* that is saved marks the table as failed, never as a row list or as      *)
(* unchanged, and every other table has its row list or unchanged entry.   *)
C6_FetchErrorMarksFailed ==
  [][\A t \in Tables, k \in 0..1, force_full \in BOOLEAN :
       BackupStep(force_full, PageFault(t, k)) =>
         /\ backups'[now].data[t].tag = "failed"
         /\ \A u \in Tables \ {t} : backups'[now].data[u].tag \in {"rows", "unchanged"}]_vars

(* C7: no snapshot in the directory holds an unchanged entry that refers   *)
(* to a snapshot that is no longer there (so no chain of references, of    *)
(* any length, leaves the directory).                                      *)
C7_ReferencesSurvivePruning ==
  \A ts \in DOMAIN backups, t \in Tables :
    backups[ts].data[t].tag = "unchanged" => backups[ts].data[t].ref \in DOMAIN backups

(* C8: a backup run adds one snapshot and prunes to the keep count: the    *)
(* directory then holds min(KeepCount, snapshots created) files, the       *)
(* newest ones, and no summary of a deleted snapshot is left.              *)
C8_RetentionCount ==
  [][backups' # backups =>
       /\ Cardinality(DOMAIN backups')
            = Min(KeepCount, Cardinality(DOMAIN backups) + 1)
       /\ \A gone \in (DOMAIN backups \cup {now}) \ DOMAIN backups' :
            /\ \A kept \in DOMAIN backups' : gone < kept
            /\ gone \notin summaries']_vars

----------------------------------------------------------------------------
(* Properties of restore and rollback (specification Spec).                *)

(* The rows a call wrote to a table, by bulk upsert, per-row upsert or     *)
(* update.                                                                 *)
Written(events, t) ==
  UNION {Elems(events[i].rows) :
           i \in {j \in 1..Len(events) :
                    /\ events[j].table = t
                    /\ events[j].e \in {"upsert", "upsert_row", "update_row"}}}

IsWrite(ev) == ev.e \in {"upsert", "upsert_row", "update_row"}

(* Every write of the call comes after the safety snapshot was saved.      *)
SafetyFirst(events) ==
  \A i \in 1..Len(events) :
    IsWrite(events[i]) => \E j \in 1..(i - 1) : events[j].e = "safety_saved"

(* The step is a restore, or a rollback, with the effects of result r.     *)
RestoreStep(r) ==
  restores' = restores + 1 /\ store' = r.store /\ safety' = r.safety

RollbackStep(r) ==
  rollbacks' = rollbacks + 1 /\ store' = r.store /\ safety' = r.safety

BackupFiles == {BackupName(ts) : ts \in DOMAIN backups}

(* C1: the command line has no flag that opts out of the safety backup, so *)
(* every "restore --file F", with or without --safe, is an invocation that *)
(* did not opt out: none of its writes comes before a safety snapshot was  *)
(* saved, and when the safety backup fails it returns failure and writes   *)
(* nothing.                                                                *)
C1_NoWriteBeforeSafety ==
  [][\A file \in BackupFiles, safe \in BOOLEAN, scen \in {"ok", "safety"} :
       LET r == main_restore(store, backups, safety, now, file, safe, scen)
       IN RestoreStep(r) =>
            /\ SafetyFirst(r.events)
            /\ (safe /\ scen = "safety") =>
                 ~r.success /\ \A i \in 1..Len(r.events) : ~IsWrite(r.events[i])]_vars

(* C2: a confirmed rollback to a safety snapshot of the safety directory   *)
(* writes every row of every row list of the snapshot to the remote store  *)
(* and returns success.                                                    *)
C2_RollbackRestores ==
  [][\A ts \in DOMAIN safety :
       LET r == rollback_from_safety_backup(store, backups, safety, now,
                                            SafetyName(ts), TRUE, "ok")
       IN RollbackStep(r) =>
            /\ r.success
            /\ \A t \in Tables :
                 safety[ts].data[t].tag = "rows" =>
                   Elems(safety[ts].data[t].rows) \subseteq Written(r.events, t)]_vars

(* C3: a safe restore of a snapshot, which takes a safety snapshot of the  *)
(* store first, followed by a confirmed rollback to that safety snapshot   *)
(* (in the same second or a later one) leaves every table of the store     *)
(* with the rows it had before the restore.                                *)
C3_Reversible ==
  [][\A file \in BackupFiles :
       LET r == main_restore(store, backups, safety, now, file, TRUE, "ok")
       IN (RestoreStep(r) /\ r.success) =>
            \A second \in {now, now + 1} :
              rollback_from_safety_backup(store', backups', safety', second,
                                          SafetyName(r.safety_file), TRUE, "ok").store
                = store]_vars

(* The chain resolver of the specification: the row list reached from the  *)
(* entry of table t in snapshot ts by following the references of the      *)
(* unchanged entries, in at most fuel steps.                               *)
RECURSIVE Resolve(_, _, _, _)
Resolve(dir, ts, t, fuel) ==
  IF fuel = 0 \/ ts \notin DOMAIN dir THEN [found |-> FALSE, rows |-> <<>>]
  ELSE IF dir[ts].data[t].tag = "rows"
  THEN [found |-> TRUE, rows |-> dir[ts].data[t].rows]
  ELSE IF dir[ts].data[t].tag = "unchanged"
  THEN Resolve(dir, dir[ts].data[t].ref, t, fuel - 1)
  ELSE [found |-> FALSE, rows |-> <<>>]

(* C4: a restore of the newest snapshot writes, for every table whose      *)
(* entry is unchanged, the rows of the nearest row list up the chain of    *)
(* references, however many unchanged entries lie in between.              *)
C4_ChainResolved ==
  [][\A file \in BackupFiles, safe \in BOOLEAN :
       LET r == main_restore(store, backups, safety, now, file, safe, "ok")
       IN (file.ts = MaxOf(DOMAIN backups) /\ RestoreStep(r)) =>
            \A t \in Tables :
              LET a == Resolve(backups, file.ts, t, MaxClock)
              IN (backups[file.ts].data[t].tag = "unchanged" /\ a.found) =>
                   Elems(a.rows) \subseteq Written(r.events, t)]_vars

(* The two snapshots of the end-to-end scenario.                           *)
IsFirstSnapshot(doc) ==
  /\ doc.data["users"].tag = "rows" /\ Len(doc.data["users"].rows) = 3
  /\ doc.data["orders"] = RowsEntry(<<>>)

IsSecondSnapshot(doc, s1) ==
  /\ doc.data["users"].tag = "unchanged" /\ doc.data["users"].ref = s1
  /\ doc.data["orders"].tag = "rows" /\ Len(doc.data["orders"].rows) = 1

(* C5: the first backup of a store with 3 users and no orders stores the 3 *)
(* users rows and the empty list for orders; a second backup, after one    *)
(* order was added, stores users as unchanged with a reference to the      *)
(* first snapshot and orders as a list of 1 row; a restore of the second   *)
(* snapshot writes the 3 users rows of the first snapshot and the 1 order  *)
(* row.                                                                    *)
C5_EndToEnd ==
  [][/\ \A force_full \in BOOLEAN :
          (/\ backups = EmptyDir
           /\ Cardinality(store["users"]) = 3 /\ store["orders"] = {}
           /\ BackupStep(force_full, NoFault)) =>
            /\ IsFirstSnapshot(backups'[now])
            /\ Elems(backups'[now].data["users"].rows) = store["users"]
     /\ \A s1 \in DOMAIN backups :
          (/\ DOMAIN backups = {s1} /\ s1 < now
           /\ IsFirstSnapshot(backups[s1])
           /\ Elems(backups[s1].data["users"].rows) = store["users"]
           /\ Cardinality(store["orders"]) = 1
           /\ BackupStep(FALSE, NoFault)) =>
            /\ IsSecondSnapshot(backups'[now], s1)
            /\ Elems(backups'[now].data["orders"].rows) = store["orders"]
            /\ backups'[s1] = backups[s1]
     /\ \A s1, s2 \in DOMAIN backups, safe \in BOOLEAN :
          LET r == main_restore(store, backups, safety, now, BackupName(s2), safe, "ok")
          IN (/\ DOMAIN backups = {s1, s2} /\ s1 < s2
              /\ IsFirstSnapshot(backups[s1])
              /\ IsSecondSnapshot(backups[s2], s1)
              /\ RestoreStep(r)) =>
               /\ r.success
               /\ Written(r.events, "users") = Elems(backups[s1].data["users"].rows)
               /\ Written(r.events, "orders") = Elems(backups[s2].data["orders"].rows)
               /\ Written(r.events, "users") \subseteq store'["users"]
               /\ Written(r.events, "orders") \subseteq store'["orders"]]_vars

(* C5: the scenario has run: the two snapshots are in the directory, the   *)
(* store holds the 3 users and the 1 order, and a restore has been made.   *)
C5_Reached ==
  /\ restores = 1 /\ edits = 1
  /\ Cardinality(store["users"]) = 3 /\ Cardinality(store["orders"]) = 1
  /\ \E s1, s2 \in DOMAIN backups :
       /\ DOMAIN backups = {s1, s2} /\ s1 < s2
       /\ IsFirstSnapshot(backups[s1])
       /\ IsSecondSnapshot(backups[s2], s1)
       /\ Elems(backups[s1].data["users"].rows) = store["users"]
       /\ Elems(backups[s2].data["orders"].rows) = store["orders"]

(* C11: a successful restore of a snapshot, followed at once by a second   *)
(* restore of the same snapshot (in the same second or a later one, with   *)
(* every write succeeding), leaves every table of the store with the       *)
(* number of rows it had after the first restore.                          *)
C11_Idempotent ==
  [][\A file \in BackupFiles, safe \in BOOLEAN :
       LET r == main_restore(store, backups, safety, now, file, safe, "ok")
       IN (RestoreStep(r) /\ r.success) =>
            \A second \in {now, now + 1} :
              Counts(main_restore(store', backups', safety', second,
                                  file, safe, "ok").store)
                = Counts(store')]_vars

(* Following the references of the unchanged entries of table t from       *)
(* snapshot ts comes back to a snapshot already visited.                   *)
RECURSIVE Revisits(_, _, _, _)
Revisits(dir, ts, t, seen) ==
  IF ts \notin DOMAIN dir \/ dir[ts].data[t].tag # "unchanged" THEN FALSE
  ELSE IF ts \in seen THEN TRUE
  ELSE Revisits(dir, dir[ts].data[t].ref, t, seen \cup {ts})

(* C12: a restore of a snapshot in which the references of a table's       *)
(* unchanged entries form a cycle ends with that table recorded as failed  *)
(* in the restore log.                                                     *)
C12_CycleReported ==
  [][\A file \in BackupFiles, safe \in BOOLEAN :
       LET r == main_restore(store, backups, safety, now, file, safe, "ok")
       IN RestoreStep(r) =>
            \A t \in Tables :
              Revisits(backups, file.ts, t, {}) => t \in r.log.tables_failed]_vars

----------------------------------------------------------------------------
(* Properties of failing restores and rollbacks (specification SpecFaults). *)

(* C13: a restore whose snapshot document is read without its metadata     *)
(* section or without its data section returns failure and makes no write: *)
(* the remote store is left as it was.                                     *)
C13_InvalidStopsRestore ==
  [][\A file \in BackupFiles, safe \in BOOLEAN, scen \in {"nometadata", "nodata"} :
       LET r == main_restore(store, backups, safety, now, file, safe, scen)
       IN (call' = [cmd |-> "restore", scen |-> scen, confirm |-> FALSE]
           /\ RestoreStep(r)) =>
            /\ ~r.success
            /\ \A i \in 1..Len(r.events) : ~IsWrite(r.events[i])
            /\ store' = store]_vars

(* A restore of a snapshot with rows for a store that lacks some of them   *)
(* has just failed on a document without metadata or without data.         *)
C13_Reached ==
  /\ call.cmd = "restore" /\ call.scen \in {"nometadata", "nodata"}
  /\ \E ts \in DOMAIN backups, t \in Tables :
       /\ backups[ts].data[t].tag = "rows"
       /\ Elems(backups[ts].data[t].rows) \ store[t] # {}

(* C14: every restore of an existing snapshot file that is past its safety *)
(* backup saves a restore log, also when it fails on the connection, on    *)
(* reading the file or on the validation of the document.                  *)
C14_LogAlwaysSaved ==
  [][\A file \in BackupFiles, safe \in BOOLEAN, scen \in Scenarios \ {"safety"} :
       LET r == main_restore(store, backups, safety, now, file, safe, scen)
       IN (call' = [cmd |-> "restore", scen |-> scen, confirm |-> FALSE]
           /\ RestoreStep(r)) =>
            /\ r.log.saved
            /\ \E i \in 1..Len(r.events) : r.events[i].e = "log_saved"]_vars

(* C15: in a restore, a table whose entry is failed, or unchanged with     *)
(* references that lead to no row list, is not written, keeps its rows in  *)
(* the remote store and is recorded in the restore log as failed.          *)
C15_UnresolvedRecorded ==
  [][\A file \in BackupFiles, safe \in BOOLEAN :
       LET r == main_restore(store, backups, safety, now, file, safe, "ok")
       IN (call' = [cmd |-> "restore", scen |-> "ok", confirm |-> FALSE]
           /\ RestoreStep(r)) =>
            \A t \in Tables :
              ~Resolve(backups, file.ts, t, MaxClock).found =>
                /\ Written(r.events, t) = {}
                /\ store'[t] = store[t]
                /\ t \in r.log.tables_failed]_vars

(* C16: in a restore, whatever the bulk upserts, per-row upserts and       *)
(* updates by id answer, every table with a non-empty resolved row list is *)
(* in the restore log, and its inserted, updated and error counts add up   *)
(* to the number of rows of that list.                                     *)
C16_EveryRowCounted ==
  [][\A file \in BackupFiles, safe \in BOOLEAN, scen \in WriteModes :
       LET r == main_restore(store, backups, safety, now, file, safe, scen)
           data == MergePrevious(backups, backups[file.ts])
       IN (call' = [cmd |-> "restore", scen |-> scen, confirm |-> FALSE]
           /\ RestoreStep(r)) =>
            \A t \in Tables :
              (data[t].tag = "rows" /\ data[t].rows # <<>>) =>
                /\ t \in r.log.tables_restored
                /\ r.log.inserted[t] + r.log.updated[t] + r.log.errors[t]
                     = Len(data[t].rows)]_vars

(* A restore in which bulk upserts failed and rows went through the        *)
(* per-row upsert and the update by id has put back the row an application *)
(* had changed.                                                            *)
C16_Reached ==
  /\ call.cmd = "restore" /\ call.scen = "mixed"
  /\ edits = 1 /\ rollbacks = 0
  /\ store \in FaultStores

(* C17: a rollback whose prompt is not answered with ROLLBACK returns      *)
(* failure and does nothing: it saves no safety snapshot, makes no write   *)
(* and leaves the remote store and both directories as they were.          *)
C17_UnconfirmedNoEffect ==
  [][\A file \in FileNames, scen \in Scenarios :
       LET r == rollback_from_safety_backup(store, backups, safety, now, file,
                                            FALSE, scen)
       IN (call' = [cmd |-> "rollback", scen |-> scen, confirm |-> FALSE]
           /\ RollbackStep(r)) =>
            /\ ~r.success
            /\ r.events = <<>>
            /\ store' = store /\ safety' = safety /\ backups' = backups]_vars

(* The prompt of a rollback was not confirmed while a safety snapshot of a *)
(* store that has changed since was there to roll back to.                 *)
C17_Reached ==
  /\ call.cmd = "rollback" /\ ~call.confirm
  /\ \E ts \in DOMAIN safety, t \in Tables :
       /\ safety[ts].data[t].tag = "rows"
       /\ Elems(safety[ts].data[t].rows) # store[t]

(* C18: in a confirmed rollback every write to the remote store comes      *)
(* after the pre-rollback safety snapshot was saved; when that snapshot    *)
(* cannot be saved the rollback makes no write.                            *)
C18_SnapshotBeforeRollbackWrites ==
  [][\A file \in FileNames, scen \in Scenarios :
       LET r == rollback_from_safety_backup(store, backups, safety, now, file,
                                            TRUE, scen)
       IN (call' = [cmd |-> "rollback", scen |-> scen, confirm |-> TRUE]
           /\ RollbackStep(r)) =>
            SafetyFirst(r.events)]_vars

----------------------------------------------------------------------------
(* Properties of the snapshot chain (specification SpecBackup) and of the  *)
(* safety snapshots.                                                       *)

(* C19: right after a backup run, every unchanged entry of the snapshot it *)
(* saved references a strictly older snapshot, the references followed     *)
(* from there reach a row list, and they never come back to a snapshot     *)
(* already visited.                                                        *)
C19_ChainInvariant ==
  [][\A force_full \in BOOLEAN, fault \in BackupFaults :
       BackupStep(force_full, fault) =>
         \A t \in Tables :
           LET e == backups'[now].data[t]
           IN e.tag = "unchanged" =>
                /\ e.ref < now
                /\ Resolve(backups', e.ref, t, MaxClock).found
                /\ ~Revisits(backups', now, t, {})]_vars

(* C20: every safety snapshot a step saves is of type safety, names no     *)
(* previous snapshot, and holds for every table a row list, never an       *)
(* unchanged marker, with the rows the table had when the snapshot was     *)
(* taken, whatever snapshots the two directories already hold.             *)
C20_SafetyMaterialized ==
  [][\A ts \in DOMAIN safety' :
       (ts \notin DOMAIN safety \/ safety'[ts] # safety[ts]) =>
         /\ safety'[ts].backup_type = "safety"
         /\ safety'[ts].previous_backup = 0
         /\ \A t \in Tables :
              /\ safety'[ts].data[t].tag = "rows"
              /\ safety'[ts].data[t].ref = 0
              /\ Elems(safety'[ts].data[t].rows) = store[t]]_vars

(* Two safety snapshots were saved, the later one while an incremental     *)
(* snapshot with unchanged entries and an earlier safety snapshot existed. *)
C20_Reached ==
  \E s1 \in DOMAIN safety, s2 \in DOMAIN safety, b \in DOMAIN backups :
    /\ s1 < s2 /\ b < s2
    /\ backups[b].backup_type = "incremental"
    /\ \E t \in Tables : backups[b].data[t].tag = "unchanged"
    /\ safety[s2].data["users"].rows # <<>>

----------------------------------------------------------------------------
(* Properties of the phases of a restore (specification SpecFaults).       *)

PhaseOrder ==
  <<"START", "SAFETY_BACKUP", "VALIDATE", "RECORD_BASELINE", "RESOLVE_CHAIN",
    "WRITE_BACK", "VERIFY", "DONE", "FAILED">>

IsPhase(ev) == \E k \in 1..Len(PhaseOrder) : PhaseOrder[k] = ev.e

Rank(p) == CHOOSE k \in 1..Len(PhaseOrder) : PhaseOrder[k] = p

(* The phase a call is in when it makes call number i of its trace.        *)
PhaseAt(events, i) ==
  LET before == {j \in 1..i : IsPhase(events[j])}
  IN IF before = {} THEN "" ELSE events[MaxOf(before)].e

(* C21: the phases of a restore come in the order START, SAFETY_BACKUP,    *)
(* VALIDATE, RECORD_BASELINE, RESOLVE_CHAIN, WRITE_BACK, VERIFY, DONE,     *)
(* with FAILED as a last phase from any of them; the call starts in START, *)
(* ends in DONE exactly when it returns success and in FAILED otherwise,   *)
(* saves its safety snapshot in SAFETY_BACKUP, writes to the remote store  *)
(* in WRITE_BACK only and saves its log in VERIFY.                         *)
C21_PhaseOrder ==
  [][\A file \in FileNames, safe \in BOOLEAN, scen \in Scenarios :
       LET r == main_restore(store, backups, safety, now, file, safe, scen)
           ev == r.events
           ph == SelectSeq(ev, IsPhase)
       IN (call' = [cmd |-> "restore", scen |-> scen, confirm |-> FALSE]
           /\ RestoreStep(r)) =>
            /\ ph # <<>> /\ Head(ph).e = "START"
            /\ \A i \in 1..(Len(ph) - 1) : Rank(ph[i].e) < Rank(ph[i + 1].e)
            /\ ph[Len(ph)].e = (IF r.success THEN "DONE" ELSE "FAILED")
            /\ ev[Len(ev)] = ph[Len(ph)]
            /\ \A i \in 1..Len(ev) :
                 /\ ev[i].e = "safety_saved" => PhaseAt(ev, i) = "SAFETY_BACKUP"
                 /\ IsWrite(ev[i]) => PhaseAt(ev, i) = "WRITE_BACK"
                 /\ ev[i].e = "log_saved" => PhaseAt(ev, i) = "VERIFY"]_vars

(* A safe restore whose bulk upserts failed has run to DONE and put back   *)
(* the row an application had changed.                                     *)
C21_Reached ==
  /\ call.cmd = "restore" /\ call.scen = "rows"
  /\ edits = 1 /\ rollbacks = 0
  /\ store \in FaultStores
  /\ safety # EmptyDir

----------------------------------------------------------------------------
(* Properties of the classification of tables by a backup run              *)
(* (specification SpecBackup).                                             *)

(* C22: in an incremental backup run, a table whose fetched rows hash like *)
(* its comparison data is stored as an unchanged marker with the timestamp *)
(* of the reference snapshot of the run, that hash and no rows; every      *)
(* other table whose fetch and comparison did not fail is stored as the    *)
(* list of the rows fetched.                                               *)
C22_EntryByFingerprint ==
  [][\A fault \in BackupFaults :
       (BackupStep(FALSE, fault) /\ HasLatest(backups)) =>
         \A t \in Tables :
           LET cur == fetch_table_data(store[t], FailPage(fault, t))
               ref == get_latest_backup(backups)
               pd == previous_data(backups, TRUE, ref, FALSE, t)
               e == backups'[now].data[t]
           IN IF pd.kind = "rows"
                 /\ calculate_table_hash(cur) = calculate_table_hash(pd.rows)
              THEN /\ e.tag = "unchanged" /\ e.rows = <<>>
                   /\ e.ref = ref.timestamp
                   /\ e.hash = calculate_table_hash(cur)
              ELSE (pd.kind # "dict" /\ ~(fault.kind = "raise" /\ fault.table = t))
                     => e = RowsEntry(cur)]_vars

(* An incremental snapshot holds an unchanged marker for one table and the *)
(* rows of another.                                                        *)
C22_Reached ==
  \E ts \in DOMAIN backups, t \in Tables, u \in Tables :
    /\ backups[ts].backup_type = "incremental"
    /\ backups[ts].data[t].tag = "unchanged" /\ backups[ts].data[t].ref < ts
    /\ backups[ts].data[u].tag = "rows" /\ backups[ts].data[u].rows # <<>>

(* The nearest row list of table t at or before snapshot ts, following the *)
(* references of the unchanged entries.                                    *)
NearestRows(dir, ts, t) == Resolve(dir, ts, t, MaxClock)

(* C23: in an incremental backup run, a table whose fetched rows hash like *)
(* the nearest row list up the chain of references of the latest snapshot  *)
(* is stored as unchanged, however many snapshots with unchanged markers   *)
(* lie in between.  Only runs in a second of their own are constrained, so *)
(* that no snapshot file is overwritten by the run.                        *)
C23_NearestMaterializedBaseline ==
  [][(BackupStep(FALSE, NoFault) /\ HasLatest(backups) /\ now \notin DOMAIN backups) =>
       \A t \in Tables :
         LET cur == fetch_table_data(store[t], NoPage)
             a == NearestRows(backups, get_latest_backup(backups).timestamp, t)
         IN (a.found /\ calculate_table_hash(cur) = calculate_table_hash(a.rows))
              => backups'[now].data[t].tag = "unchanged"]_vars

(* C24: a backup run that is forced full, or that finds no snapshot in the *)
(* backup directory, compares every table against no previous data (the    *)
(* comparison answers changed with reason no_previous_backup) and saves a  *)
(* snapshot of type full, without a previous_backup and with the fetched   *)
(* row list of every table, whatever snapshots the directory holds.        *)
C24_FullWithoutReference ==
  [][\A force_full \in BOOLEAN, fault \in BackupFaults :
       (BackupStep(force_full, fault) /\ (force_full \/ ~HasLatest(backups))) =>
         LET d == backups'[now]
         IN /\ d.backup_type = "full"
            /\ d.previous_backup = 0
            /\ \A t \in Tables :
                 LET cur == fetch_table_data(store[t], FailPage(fault, t))
                     pd == previous_data(backups, ~force_full /\ HasLatest(backups),
                                         d, force_full, t)
                 IN /\ pd = PrevNone
                    /\ compare_table_data(cur, None).changed
                    /\ compare_table_data(cur, None).reason = "no_previous_backup"
                    /\ d.data[t].tag # "unchanged"
                    /\ d.data[t] = RowsEntry(cur)]_vars

(* A full snapshot was saved while the directory held an older incremental *)
(* snapshot with an unchanged table that the full snapshot stores as rows. *)
C24_Reached ==
  \E a, b \in DOMAIN backups, t \in Tables :
    /\ a < b
    /\ backups[a].backup_type = "incremental"
    /\ backups[a].data[t].tag = "unchanged"
    /\ backups[b].backup_type = "full"
    /\ backups[b].previous_backup = 0
    /\ backups[b].data[t].tag = "rows"
    /\ backups[b].data[t].rows # <<>>

----------------------------------------------------------------------------
(* Properties of failed entries (specification SpecFaults).                *)

(* C25: a failed entry is not read as an empty table.  A backup run whose  *)
(* reference snapshot holds a failed entry for a table stores the fetched  *)
(* row list of that table, never an unchanged marker, also when the table  *)
(* is empty; and a restore of a snapshot with a failed entry for a table   *)
(* issues no bulk upsert, per-row upsert or update for that table and      *)
(* leaves its rows in the remote store as they are.                        *)
C25_FailedNotEmptiness ==
  [][/\ \A force_full \in BOOLEAN, fault \in BackupFaults, t \in Tables :
          (/\ BackupStep(force_full, fault)
           /\ HasLatest(backups)
           /\ get_latest_backup(backups).data[t].tag = "failed") =>
             /\ backups'[now].data[t].tag = "rows"
             /\ backups'[now].data[t].rows
                  = fetch_table_data(store[t], FailPage(fault, t))
     /\ \A file \in BackupFiles, safe \in BOOLEAN, scen \in Scenarios :
          LET r == main_restore(store, backups, safety, now, file, safe, scen)
          IN (call' = [cmd |-> "restore", scen |-> scen, confirm |-> FALSE]
              /\ RestoreStep(r)) =>
               \A t \in Tables :
                 backups[file.ts].data[t].tag = "failed" =>
                   /\ \A i \in 1..Len(r.events) :
                        IsWrite(r.events[i]) => r.events[i].table # t
                   /\ store'[t] = store[t]]_vars

(* A restore ran on a directory whose snapshot holds a failed entry for a  *)
(* table and rows for another table: the first table kept rows that the    *)
(* restore did not write, the other table has the rows of the snapshot.    *)
C25_Reached ==
  /\ call = [cmd |-> "restore", scen |-> "ok", confirm |-> FALSE]
  /\ restores = 1 /\ rollbacks = 0
  /\ \E ts \in DOMAIN backups, t, u \in Tables :
       /\ backups[ts].data[t].tag = "failed"
       /\ store[t] # {}
       /\ backups[ts].data[u].tag = "rows"
       /\ backups[ts].data[u].rows # <<>>
       /\ Elems(backups[ts].data[u].rows) \subseteq store[u]

----------------------------------------------------------------------------
(* Properties of the writes of one batch (specification SpecFaults).       *)

(* C26: in a restore, whatever the remote store answers, the per-row       *)
(* upsert of a row comes only after the bulk upsert of its batch failed;   *)
(* the update by id of a row comes only right after the per-row upsert of  *)
(* that row failed with a duplicate key error, and only for a row with an  *)
(* id; a row without an id whose per-row upsert failed with a duplicate    *)
(* key error is counted as an error at once and no update is made for it.  *)
C26_EscalationOrder ==
  [][\A file \in BackupFiles, safe \in BOOLEAN, scen \in WriteModes :
       LET r == main_restore(store, backups, safety, now, file, safe, scen)
           ev == r.events
       IN (call' = [cmd |-> "restore", scen |-> scen, confirm |-> FALSE]
           /\ RestoreStep(r)) =>
            \A i \in 1..Len(ev) :
              /\ ev[i].e = "upsert_row" =>
                   \E j \in 2..(i - 1) :
                     /\ ev[j] = Event("upsert_failed", ev[i].table, ev[j].rows)
                     /\ ev[j - 1] = Event("upsert", ev[i].table, ev[j].rows)
                     /\ ev[i].rows[1] \in Elems(ev[j].rows)
                     /\ \A k \in (j + 1)..(i - 1) : ev[k].e # "upsert"
              /\ ev[i].e = "update_row" =>
                   /\ i > 2
                   /\ ev[i - 1] = Event("duplicate", ev[i].table, ev[i].rows)
                   /\ ev[i - 2] = Event("upsert_row", ev[i].table, ev[i].rows)
                   /\ Truthy(ev[i].rows[1].id)
              /\ (ev[i].e = "duplicate" /\ ~Truthy(ev[i].rows[1].id)) =>
                   /\ i < Len(ev)
                   /\ ev[i + 1] = Event("row_error", ev[i].table, ev[i].rows)]_vars

(* A restore in which every bulk and per-row upsert failed with a          *)
(* duplicate key error ran on a snapshot that holds rows with an id and    *)
(* rows of a table whose id column is excluded.                            *)
C26_Reached ==
  /\ call = [cmd |-> "restore", scen |-> "update", confirm |-> FALSE]
  /\ restores = 1 /\ rollbacks = 0
  /\ \E ts \in DOMAIN backups :
       /\ backups[ts].data["users"].tag = "rows"
       /\ backups[ts].data["users"].rows # <<>>
       /\ backups[ts].data["room_allotments"].tag = "rows"
       /\ backups[ts].data["room_allotments"].rows # <<>>

(* C27: in a restore, whatever the remote store answers, no bulk upsert,   *)
(* per-row upsert or update by id of a table carries a column of the       *)
(* table's list of excluded columns (a row without its id column has no    *)
(* id).                                                                    *)
C27_NoExcludedColumnWritten ==
  [][\A file \in BackupFiles, safe \in BOOLEAN, scen \in WriteModes :
       LET r == main_restore(store, backups, safety, now, file, safe, scen)
           ev == r.events
       IN (call' = [cmd |-> "restore", scen |-> scen, confirm |-> FALSE]
           /\ RestoreStep(r)) =>
            \A i \in 1..Len(ev) :
              (IsWrite(ev[i]) /\ ev[i].table \in Tables
                 /\ "id" \in excluded_columns(ev[i].table)) =>
                \A k \in 1..Len(ev[i].rows) : ev[i].rows[k].id = NoId]_vars

(* A restore whose bulk upserts failed has written the rows of a table     *)
(* whose id column is excluded: the rows of the snapshot, which hold ids,  *)
(* were inserted as new rows.                                              *)
C27_Reached ==
  /\ call = [cmd |-> "restore", scen |-> "rows", confirm |-> FALSE]
  /\ restores = 1 /\ rollbacks = 0
  /\ \E ts \in DOMAIN backups :
       LET e == backups[ts].data["room_allotments"]
       IN /\ e.tag = "rows"
          /\ e.rows # <<>>
          /\ \A k \in 1..Len(e.rows) : e.rows[k].id # NoId
          /\ Cardinality(store["room_allotments"]) > Len(e.rows)

----------------------------------------------------------------------------
(* Properties of the verification step of a restore (specification         *)
(* SpecFaults).                                                            *)

(* The restore call said, between VERIFY and DONE, that the row count of   *)
(* table t is lower than expected.                                         *)
MismatchFlagged(ev, t) ==
  \E i \in 1..Len(ev) :
    /\ ev[i].e = "verification_warning"
    /\ ev[i].table = t
    /\ PhaseAt(ev, i) = "VERIFY"

(* C28: a restore that got as far as its verification step returns success *)
(* and ends in DONE whatever the row counts are, and for every restored    *)
(* table whose row count after the writes is below 90% of the number of    *)
(* rows resolved for it, it says so in its output.                         *)
C28_VerifySoft ==
  [][\A file \in BackupFiles, safe \in BOOLEAN, scen \in WriteModes :
       LET r == main_restore(store, backups, safety, now, file, safe, scen)
           data == MergePrevious(backups, backups[file.ts])
       IN (call' = [cmd |-> "restore", scen |-> scen, confirm |-> FALSE]
           /\ RestoreStep(r)) =>
            \A t \in Tables :
              (/\ t \in r.log.tables_restored
               /\ data[t].tag = "rows"
               /\ 10 * Cardinality(store'[t]) < 9 * Len(data[t].rows)) =>
                /\ r.success
                /\ r.events[Len(r.events)] = Event("DONE", "", <<>>)
                /\ MismatchFlagged(r.events, t)]_vars

----------------------------------------------------------------------------
(* Properties of backup runs with workers (specification SpecWorkers):     *)
(* backup runs with one worker and with several, over two seconds, in      *)
(* seconds of their own or not, with at most one fault.                    *)

WInit == HIdle /\ SInitAt(MaxClock - 1, 0, InitialStores)

WNext ==
  Tick \/ InsertRow \/ UpdateRow \/ DeleteRow \/ CmdBackup \/ CmdBackupWorkers

SpecWorkers == WInit /\ [][WNext]_vars

(* C29: whatever the order in which the workers complete, the snapshot a   *)
(* backup run with workers assembles has an entry for every table, and it  *)
(* is the snapshot the sequential run assembles from the same remote       *)
(* store and the same backup directory: this holds for every run that can  *)
(* start in a state the tool reaches.                                      *)
C29_WorkersAsSequential ==
  \A force_full \in BOOLEAN, fault \in BackupFaults, order \in CompletionOrders :
    (/\ Happens(store, backups, force_full, fault)
     /\ fault.kind # "none" => faults < MaxFaults) =>
      LET d == backup_data_workers(store, backups, now, force_full, fault, order)
      IN /\ DOMAIN d.data = Tables
         /\ \A t \in Tables :
              d.data[t] = backup_data(store, backups, now, force_full, fault).data[t]
         /\ d = backup_data(store, backups, now, force_full, fault)

(* A snapshot holds an unchanged marker for one table and, for a table     *)
(* later in the table list, a failed entry or a row list: entries that an  *)
(* assembly in another order would tell apart.                             *)
C29_Reached ==
  \E ts \in DOMAIN backups :
    /\ backups[ts].backup_type = "incremental"
    /\ backups[ts].data["users"].tag = "unchanged"
    /\ backups[ts].data["orders"].tag = "failed"
    /\ backups[ts].data["room_allotments"].tag = "unchanged"
    /\ \E ts2 \in DOMAIN backups :
         /\ ts2 > ts
         /\ backups[ts2].data["orders"].tag = "rows"
         /\ backups[ts2].data["orders"].rows # <<>>

----------------------------------------------------------------------------
(* Properties of the restore of one table by workers (specification        *)
(* SpecFaults).                                                            *)

(* The orders in which the workers can apply n batches: each batch once,   *)
(* in any order, or one batch a second time.                               *)
Schedules(n) ==
  {s \in UNION {[1..m -> 1..n] : m \in {n, n + 1}} :
     \A b \in 1..n : \E i \in DOMAIN s : s[i] = b}

(* The rows of a table after the first k batch applications of a schedule: *)
(* each is one call of restore_table_batch by a worker.                    *)
RECURSIVE ApplySchedule(_, _, _, _, _, _)
ApplySchedule(tableRows, table, batches, sched, k, mode) ==
  IF k = 0 THEN tableRows
  ELSE restore_table_batch(
         ApplySchedule(tableRows, table, batches, sched, k - 1, mode),
         table, batches[sched[k]], mode).rows

(* The batches in the order of the task list, each once.                   *)
InOrder(n) == [i \in 1..n |-> i]

(* C30: for every snapshot file of the backup directory and every table    *)
(* with a resolved row list, the rows the table holds after its batches    *)
(* were applied are the same for every order of the batches, also when one *)
(* batch is applied twice, whatever the remote store answers to the        *)
(* writes.                                                                 *)
C30_BatchOrderIrrelevant ==
  \A ts \in DOMAIN backups, t \in Tables, mode \in WriteModes :
    LET data == MergePrevious(backups, backups[ts])
        batches == Batches(data[t].rows)
        n == Len(batches)
    IN (data[t].tag = "rows" /\ n > 0) =>
         \A s \in Schedules(n) :
           ApplySchedule(store[t], t, batches, s, Len(s), mode)
             = ApplySchedule(store[t], t, batches, InOrder(n), n, mode)

(* The same for the tables whose id column is written.                     *)
BatchOrderIrrelevantWithId ==
  \A ts \in DOMAIN backups, t \in Tables, mode \in WriteModes :
    LET data == MergePrevious(backups, backups[ts])
        batches == Batches(data[t].rows)
        n == Len(batches)
    IN (data[t].tag = "rows" /\ n > 0 /\ "id" \notin excluded_columns(t)) =>
         \A s \in Schedules(n) :
           ApplySchedule(store[t], t, batches, s, Len(s), mode)
             = ApplySchedule(store[t], t, batches, InOrder(n), n, mode)

----------------------------------------------------------------------------
(* Properties of restores with workers (specification SpecRestoreWorkers): *)
(* within one second, edits, backups and one restore with workers, with at *)
(* most one fault.                                                         *)

RInit == HIdle /\ SInitAt(MaxClock, 0, FaultStores)

RNext == InsertRow \/ UpdateRow \/ DeleteRow \/ CmdBackup \/ CmdRestoreWorkers

SpecRestoreWorkers == RInit /\ [][RNext]_vars

(* The sum, over the tasks of one table, of a counter of the results the   *)
(* workers return.                                                         *)
RECURSIVE SumResults(_, _, _, _, _)
SumResults(tasks, t, counter, mode, k) ==
  IF k = 0 THEN 0
  ELSE SumResults(tasks, t, counter, mode, k - 1)
         + (IF tasks[k].table = t
            THEN restore_table_batch(store[t], t, tasks[k].batch, mode)[counter]
            ELSE 0)

(* C31: for every restore with workers of a snapshot file that can start   *)
(* in a state the tool reaches, whatever the remote store answers and      *)
(* whatever the order in which the workers complete, the per-table         *)
(* inserted, updated and error counts of the restore log are the sums of   *)
(* the counts the workers returned for the batches of the table, and the   *)
(* totals are the sums over all batches.                                   *)
C31_NoLostUpdates ==
  \A file \in BackupFiles, mode \in WriteModes :
    (mode # "ok" => faults < MaxFaults) =>
      LET tasks == TasksOf(store, backups, safety, now, file, TRUE, mode)
      IN \A order \in TaskOrders(Len(tasks)) :
           LET r == restore_backup_workers(store, backups, safety, now, file,
                                           TRUE, mode, order)
           IN /\ r.success
              /\ \A c \in {"inserted", "updated", "errors"} :
                   /\ \A t \in Tables :
                        r.log[c][t] = SumResults(tasks, t, c, mode, Len(tasks))
                   /\ Totals(r.log)[c]
                        = SumOver([t \in Tables |->
                                     SumResults(tasks, t, c, mode, Len(tasks))],
                                  TableList)

(* A restore with workers in which bulk upserts failed ran on a snapshot   *)
(* whose users table takes more than one batch, and put back the row an    *)
(* application had deleted.                                                *)
C31_Reached ==
  /\ call = [cmd |-> "restore", scen |-> "mixed", confirm |-> FALSE]
  /\ restores = 1 /\ edits = 1
  /\ \E ts \in DOMAIN backups :
       /\ backups[ts].data["users"].tag = "rows"
       /\ Len(backups[ts].data["users"].rows) > BatchSize
       /\ Elems(backups[ts].data["users"].rows) = store["users"]
       /\ store \in FaultStores

----------------------------------------------------------------------------
(* Properties of the paginated fetch (specification SpecFetch): one call   *)
(* of fetch_table_data, request by request, on a table of up to MaxRows    *)
(* rows with a page size of up to MaxPage, no request failing.             *)

MaxRows == 8

MaxPage == 4

(* The rows of a table of n rows, in the order the remote store returns    *)
(* them.                                                                   *)
TableOf(n) == [i \in 1..n |-> MkRow(IntId(i), 0)]

(* fetch_table_data(client, table_name, page_size) is called.              *)
FetchCall ==
  /\ fetch = FetchIdle
  /\ \E n \in 0..MaxRows, p \in 1..MaxPage :
       fetch' = [n |-> n, p |-> p, start |-> 0, data |-> <<>>,
                 requests |-> <<>>, done |-> FALSE]
  /\ UNCHANGED <<hin, hout, svars>>

(* One turn of the while loop: the request of a page, then the break on an *)
(* empty page, or the extend followed by the break on a short page or by   *)
(* start += page_size.                                                     *)
FetchPage ==
  /\ fetch.n >= 0 /\ ~fetch.done
  /\ LET rows == range(TableOf(fetch.n), fetch.start,
                       fetch.start + fetch.p - 1)
         requests == Append(fetch.requests, fetch.start)
     IN fetch' =
          IF rows = <<>>
          THEN [fetch EXCEPT !.requests = requests, !.done = TRUE]
          ELSE IF Len(rows) < fetch.p
          THEN [fetch EXCEPT !.requests = requests, !.done = TRUE,
                             !.data = fetch.data \o rows]
          ELSE [fetch EXCEPT !.requests = requests,
                             !.data = fetch.data \o rows,
                             !.start = fetch.start + fetch.p]
  /\ UNCHANGED <<hin, hout, svars>>

FetchInit == HQuiet /\ fetch = FetchIdle /\ SInitAt(1, 0, InitialStores)

FetchNext == FetchCall \/ FetchPage

SpecFetch == FetchInit /\ [][FetchNext]_vars

(* C32: a call of fetch_table_data on a table of n rows with page size p   *)
(* in which no request fails requests the pages at offsets 0, p, 2p, ...,  *)
(* goes on after every full page and ends with the first empty or short    *)
(* page, after n \div p + 1 requests (so one request of an empty page when *)
(* n is a positive multiple of p); the rows it has collected are always    *)
(* the first rows of the table in order, and when it ends they are the n   *)
(* rows of the table, each once.                                           *)
C32_PaginatedFetch ==
  fetch.n >= 0 =>
    LET all == TableOf(fetch.n)
        k == Len(fetch.requests)
        page(i) == SubSeq(all, (i - 1) * fetch.p + 1,
                          Min(i * fetch.p, fetch.n))
    IN /\ \A i \in 1..k : fetch.requests[i] = (i - 1) * fetch.p
       /\ k <= fetch.n \div fetch.p + 1
       /\ fetch.data = SubSeq(all, 1, Len(fetch.data))
       /\ \A i \in 1..(k - 1) : Len(page(i)) = fetch.p
       /\ ~fetch.done => /\ Len(fetch.data) = k * fetch.p
                         /\ fetch.start = k * fetch.p
       /\ fetch.done =>
            /\ fetch.data = all
            /\ k = fetch.n \div fetch.p + 1
            /\ Len(page(k)) < fetch.p
            /\ (fetch.n > 0 /\ fetch.n % fetch.p = 0) => page(k) = <<>>
            /\ fetch.p = PageSize =>
                 fetch.data
                   = FetchLoop(all, 0, 0, NoPage, <<>>)

(* A call on a table whose size is a positive multiple of the page size    *)
(* has ended: after two full pages it requested a third, empty one.        *)
C32_Reached ==
  /\ fetch.done /\ fetch.n = 4 /\ fetch.p = 2
  /\ fetch.requests = <<0, 2, 4>>
  /\ Len(fetch.data) = 4

----------------------------------------------------------------------------
(* Properties of a restore of a document with a missing entry              *)
(* (specification SpecFaults).                                             *)

(* C33: a restore of a snapshot whose data section has no entry for a      *)
(* table of its table list skips that table and records it in the log as   *)
(* failed, writes the rows of every other table that has a resolved row    *)
(* list, returns success and ends in DONE.                                 *)
C33_MissingEntryIsolated ==
  [][\A file \in BackupFiles, safe \in BOOLEAN :
       LET r == main_restore(store, backups, safety, now, file, safe, "noentry")
           data == MergePrevious(backups, EntriesRead(backups[file.ts], "noentry"))
       IN (call' = [cmd |-> "restore", scen |-> "noentry", confirm |-> FALSE]
           /\ RestoreStep(r)) =>
            /\ r.success
            /\ r.events[Len(r.events)] = Event("DONE", "", <<>>)
            /\ \A t \in Tables :
                 /\ data[t].tag = "missing" =>
                      /\ t \in r.log.tables_failed
                      /\ \A i \in 1..Len(r.events) :
                           IsWrite(r.events[i]) => r.events[i].table # t
                 /\ data[t].tag = "rows" =>
                      Elems(Filtered(t, data[t].rows)) \subseteq Written(r.events, t)]_vars

----------------------------------------------------------------------------
(* Properties of the names of the snapshot files (specification            *)
(* SpecBackup).                                                            *)

(* C34: every backup run saves its snapshot under a timestamp that no      *)
(* snapshot of the backup directory has, and leaves every snapshot that    *)
(* stays in the directory as it was, also when two runs start within the   *)
(* same second.                                                            *)
C34_SnapshotIdsUnique ==
  [][\A force_full \in BOOLEAN, fault \in BackupFaults :
       BackupStep(force_full, fault) =>
         /\ now \notin DOMAIN backups
         /\ now \in DOMAIN backups'
         /\ \A ts \in DOMAIN backups \cap DOMAIN backups' :
              backups'[ts] = backups[ts]]_vars

----------------------------------------------------------------------------
(* Properties of the counts of the change detector (specification          *)
(* SpecHash).                                                              *)

(* The ids of the rows that have an id key, whatever its value.            *)
AllIds(data) == {data[i].id : i \in {j \in 1..Len(data) : data[j].id # NoId}}

(* C35: when compare_table_data reports a change against a reference list, *)
(* added_count is the number of distinct ids that rows of the current list *)
(* have and no row of the reference list has, and removed_count the number *)
(* of distinct ids of the reference list that the current list lacks, for  *)
(* every id value, 0 and the empty string included; rows without an id key *)
(* are in neither count.                                                   *)
C35_IdCounts ==
  (hout.op = "compare" /\ hin.prev.present /\ hout.cmp.changed) =>
    /\ hout.cmp.added_count
         = Cardinality(AllIds(hin.cur) \ AllIds(hin.prev.rows))
    /\ hout.cmp.removed_count
         = Cardinality(AllIds(hin.prev.rows) \ AllIds(hin.cur))

----------------------------------------------------------------------------
(* Properties of the depth of the chains of references (specification      *)
(* SpecBackup).                                                            *)

(* The entry of table t in snapshot ts is a row list, or an unchanged      *)
(* marker whose references lead to a row list in at most k hops.           *)
RECURSIVE ReachesWithin(_, _, _, _)
ReachesWithin(dir, ts, t, k) ==
  /\ ts \in DOMAIN dir
  /\ \/ dir[ts].data[t].tag = "rows"
     \/ /\ k > 0
        /\ dir[ts].data[t].tag = "unchanged"
        /\ ReachesWithin(dir, dir[ts].data[t].ref, t, k - 1)

(* The latest snapshot marks table t as unchanged and the snapshot that    *)
(* marker references marks it as unchanged too.                            *)
TwoMarkers(dir, t) ==
  /\ HasLatest(dir)
  /\ LET e == get_latest_backup(dir).data[t]
     IN /\ e.tag = "unchanged"
        /\ e.ref \in DOMAIN dir
        /\ dir[e.ref].data[t].tag = "unchanged"

(* The two parts of C36 for one backup step.                               *)
ChainBounded(force_full, fault) ==
  \A t \in Tables :
    /\ TwoMarkers(backups, t) =>
         backups'[now].data[t]
           = RowsEntry(fetch_table_data(store[t], FailPage(fault, t)))
    /\ backups'[now].data[t].tag = "unchanged" =>
         ReachesWithin(backups', now, t, 2)

(* C36: a backup run whose reference snapshot marks a table as unchanged   *)
(* with a reference to a snapshot that marks it as unchanged too stores    *)
(* the fetched rows of the table, changed or not; and every unchanged      *)
(* marker a backup run saves leads to a row list in at most two reference  *)
(* hops in the backup directory the run leaves.                            *)
C36_ChainDepthBounded ==
  [][\A force_full \in BOOLEAN, fault \in BackupFaults :
       BackupStep(force_full, fault) => ChainBounded(force_full, fault)]_vars

(* The same for the runs in a second of their own.                         *)
ChainDepthBoundedOwnSecond ==
  [][\A force_full \in BOOLEAN, fault \in BackupFaults :
       (BackupStep(force_full, fault) /\ now \notin DOMAIN backups) =>
         ChainBounded(force_full, fault)]_vars

----------------------------------------------------------------------------
(* Properties of what a restore leaves alone (specification SpecFaults).   *)

IdsOf(tableRows) == {r.id : r \in tableRows}

NoWriteTo(events, t) ==
  \A i \in 1..Len(events) : IsWrite(events[i]) => events[i].table # t

(* C37: a restore or a rollback deletes nothing: whatever goes wrong in    *)
(* it, every id a table of the remote store holds before the call is still *)
(* in the table after it; and a table whose resolved entry in the snapshot *)
(* restored is the empty row list gets no write and keeps its rows.        *)
C37_RestoreNeverDeletes ==
  [][/\ (restores' # restores \/ rollbacks' # rollbacks) =>
          \A t \in Tables : IdsOf(store[t]) \subseteq IdsOf(store'[t])
     /\ \A file \in BackupFiles, safe \in BOOLEAN, scen \in WriteModes :
          LET r == main_restore(store, backups, safety, now, file, safe, scen)
              data == MergePrevious(backups, backups[file.ts])
          IN (call' = [cmd |-> "restore", scen |-> scen, confirm |-> FALSE]
              /\ RestoreStep(r)) =>
               \A t \in Tables :
                 (data[t].tag = "rows" /\ data[t].rows = <<>>) =>
                   NoWriteTo(r.events, t) /\ store'[t] = store[t]]_vars

(* A restore ran on a snapshot that holds rows of one table and the empty  *)
(* row list of another, and the second table has kept a row that an        *)
(* application had inserted after the backup.                              *)
C37_Reached ==
  /\ call = [cmd |-> "restore", scen |-> "ok", confirm |-> FALSE]
  /\ restores = 1 /\ rollbacks = 0 /\ edits = 1
  /\ \E ts \in DOMAIN backups :
       /\ backups[ts].data["room_allotments"] = RowsEntry(<<>>)
       /\ store["room_allotments"] # {}
       /\ backups[ts].data["users"].tag = "rows"
       /\ backups[ts].data["users"].rows # <<>>

----------------------------------------------------------------------------
(* Properties of the two directories (specification SpecLineage): backups, *)
(* restores and rollbacks, none of whose calls fails, over MaxClock        *)
(* seconds, so that the backup runs outnumber KeepCount.                   *)
LInit == HIdle /\ SInitAt(1, MaxFaults, InitialStores)

LNext == Tick \/ CmdBackup \/ CmdRestore \/ CmdRollback

SpecLineage == LInit /\ [][LNext]_vars

(* C38: the safety snapshots are a lineage of their own.  A backup run     *)
(* leaves the safety directory as it was; its reference is the newest file *)
(* of the backup directory, whatever newer safety snapshots exist; and it  *)
(* keeps the KeepCount newest normal snapshots, the safety snapshots not   *)
(* counted.                                                                *)
C38_SafetyLineageSeparate ==
  [][\A force_full \in BOOLEAN :
       BackupStep(force_full, NoFault) =>
         /\ safety' = safety
         /\ ~force_full /\ HasLatest(backups) =>
              /\ backups'[now].backup_type = "incremental"
              /\ backups'[now].previous_backup = MaxOf(DOMAIN backups)
              /\ \A t \in Tables :
                   backups'[now].data[t].tag = "unchanged" =>
                     backups'[now].data[t].ref \in DOMAIN backups
         /\ (force_full \/ ~HasLatest(backups)) =>
              backups'[now].backup_type = "full"
         /\ DOMAIN backups' = Newest(DOMAIN backups \cup {now}, KeepCount)]_vars

(* A backup run has taken an older normal snapshot as its reference while  *)
(* a newer safety snapshot existed, and has pruned a normal snapshot while *)
(* a safety snapshot as old as the pruned one is still there.              *)
C38_Reached ==
  /\ now \in DOMAIN backups
  /\ backups[now].backup_type = "incremental"
  /\ \E s \in DOMAIN safety : backups[now].previous_backup < s
  /\ Cardinality(DOMAIN backups) = KeepCount
  /\ \E ts \in DOMAIN backups, s \in DOMAIN safety :
       /\ backups[ts].previous_backup # 0
       /\ backups[ts].previous_backup \notin DOMAIN backups
       /\ s <= backups[ts].previous_backup

----------------------------------------------------------------------------
(* Properties of a backup run that cannot read a snapshot (specification   *)
(* SpecUnreadable): backups over MaxClock seconds, one of which finds a    *)
(* file it reads unreadable, and an operator who removes snapshot files by *)
(* hand.                                                                   *)

ReadFaults == {NoFault} \cup {UnreadableFault(ts) : ts \in 1..MaxClock}

(* create_backup in a run whose reads of snapshot files may raise.         *)
CmdBackupUnreadable ==
  \E force_full \in BOOLEAN, fault \in ReadFaults :
    /\ Happens(store, backups, force_full, fault)
    /\ Spend(fault.kind # "none")
    /\ create_backup(force_full, fault)

(* A snapshot file and its summary are removed by hand.                    *)
RemoveFile ==
  \E ts \in DOMAIN backups :
    /\ backups' = [x \in DOMAIN backups \ {ts} |-> backups[x]]
    /\ summaries' = summaries \ {ts}
    /\ UNCHANGED <<now, store, safety, edits, faults, restores, rollbacks, call, hvars>>

UInit == HIdle /\ SInitAt(1, 0, InitialStores)

UNext == Tick \/ InsertRow \/ CmdBackupUnreadable \/ RemoveFile

SpecUnreadable == UInit /\ [][UNext]_vars

(* C39: a backup run that cannot read the newest snapshot, or cannot find  *)
(* or read the snapshot that the newest one's unchanged entry of a table   *)
(* refers to, still saves its snapshot and summary; the tables affected    *)
(* are stored as the rows fetched, never as unchanged or failed; and when  *)
(* it is the newest snapshot that cannot be read, the snapshot is full.    *)
C39_UnreadableReferenceStoresRows ==
  [][\A fault \in ReadFaults :
       (BackupStep(FALSE, fault) /\ HasLatest(backups)) =>
         LET latest == get_latest_backup(backups)
             unread == fault.kind = "unreadable" /\ fault.file = latest.timestamp
             fetched(t) == RowsEntry(fetch_table_data(store[t], NoPage))
         IN /\ now \in DOMAIN backups' /\ now \in summaries'
            /\ unread =>
                 /\ backups'[now].backup_type = "full"
                 /\ \A t \in Tables : backups'[now].data[t] = fetched(t)
            /\ ~unread =>
                 \A t \in Tables :
                   (/\ latest.data[t].tag = "unchanged"
                    /\ \/ latest.data[t].ref \notin DOMAIN backups
                       \/ /\ fault.kind = "unreadable"
                          /\ fault.file = latest.data[t].ref) =>
                     backups'[now].data[t] = fetched(t)]_vars

(* A run has stored as rows a table that equals its rows in the snapshot   *)
(* which the unchanged entry of the run's reference refers to: the run     *)
(* could not read that snapshot.                                           *)
C39_Reached ==
  /\ faults = 1
  /\ now \in DOMAIN backups
  /\ backups[now].backup_type = "incremental"
  /\ LET p == backups[now].previous_backup
     IN /\ p \in DOMAIN backups /\ p < now
        /\ \E t \in Tables :
             LET e == backups[p].data[t]
             IN /\ e.tag = "unchanged"
                /\ e.ref \in DOMAIN backups /\ e.ref < p
                /\ backups[e.ref].data[t].tag = "rows"
                /\ backups[now].data[t] = backups[e.ref].data[t]

============================================================================
